---- MODULE Spec2Model ----
(***************************************************************************)
(* A model of the trap path of the hypervisor: VCpu::new / VCpu::run,      *)
(* trap_handler, handle_trap, the SBI front-end, the MMIO router, the PLIC *)
(* model and the VirtIO-MMIO block device.                                 *)
(*                                                                         *)
(* 64-bit machine words are kept at full width.  TLC integers are 32-bit,  *)
(* so a u64 is a tuple of four 16-bit limbs, most significant first.       *)
(***************************************************************************)
EXTENDS Integers, Sequences, FiniteSets, TLC

(***************************************************************************)
(* u64 arithmetic on limbs                                                 *)
(***************************************************************************)
Limb == 65535 + 1

\* the u64 whose value is the natural n (n below 2^31)
U(n) == <<0, 0, n \div Limb, n % Limb>>

\* the u64 with the given four 16-bit limbs
U4(a, b, c, d) == <<a, b, c, d>>

Zero64 == U(0)

\* a < b on u64
Lt64(a, b) ==
    \E i \in 1..4 : a[i] < b[i] /\ \A j \in 1..(i - 1) : a[j] = b[j]

Le64(a, b) == a = b \/ Lt64(a, b)

\* wrapping a + b
Add64(a, b) ==
    LET s4 == a[4] + b[4]
        s3 == a[3] + b[3] + (s4 \div Limb)
        s2 == a[2] + b[2] + (s3 \div Limb)
        s1 == a[1] + b[1] + (s2 \div Limb)
    IN  <<s1 % Limb, s2 % Limb, s3 % Limb, s4 % Limb>>

\* bitwise complement
Not64(a) == <<Limb - 1 - a[1], Limb - 1 - a[2], Limb - 1 - a[3], Limb - 1 - a[4]>>

\* wrapping a - b
Sub64(a, b) == Add64(Add64(a, Not64(b)), U(1))

\* a << 2, bits shifted out of bit 63 are lost
Shl2(a) ==
    LET q == Limb \div 4
    IN  <<((a[1] * 4) % Limb) + (a[2] \div q),
          ((a[2] * 4) % Limb) + (a[3] \div q),
          ((a[3] * 4) % Limb) + (a[4] \div q),
          (a[4] * 4) % Limb>>

\* bitwise or / and of two naturals below 2^16
RECURSIVE OrN(_, _)
OrN(x, y) ==
    IF x = 0 THEN y
    ELSE IF y = 0 THEN x
    ELSE (IF x % 2 = 1 \/ y % 2 = 1 THEN 1 ELSE 0) + 2 * OrN(x \div 2, y \div 2)

RECURSIVE AndN(_, _)
AndN(x, y) ==
    IF x = 0 \/ y = 0 THEN 0
    ELSE (IF x % 2 = 1 /\ y % 2 = 1 THEN 1 ELSE 0) + 2 * AndN(x \div 2, y \div 2)

Or64(a, b) == <<OrN(a[1], b[1]), OrN(a[2], b[2]), OrN(a[3], b[3]), OrN(a[4], b[4])>>

And64(a, b) == <<AndN(a[1], b[1]), AndN(a[2], b[2]), AndN(a[3], b[3]), AndN(a[4], b[4])>>

\* bits [lo, lo+n) of a u64, for a field inside the low 32 bits, n <= 15
RECURSIVE Pow2(_)
Pow2(n) == IF n = 0 THEN 1 ELSE 2 * Pow2(n - 1)

Bits(a, lo, n) ==
    LET low32hi == a[3]
        low32lo == a[4]
    IN  IF lo >= 16
        THEN (low32hi \div Pow2(lo - 16)) % Pow2(n)
        ELSE IF lo + n <= 16
        THEN (low32lo \div Pow2(lo)) % Pow2(n)
        ELSE (low32lo \div Pow2(lo)) + ((low32hi % Pow2(lo + n - 16)) * Pow2(16 - lo))

\* `x as u32`, as a pair of 16-bit limbs
AsU32(a) == <<a[3], a[4]>>

\* `x as u64` of an i64 (two's complement)
I64AsU64(n) == IF n >= 0 THEN U(n) ELSE Sub64(Zero64, U(0 - n))

\* `x as u8` of a u64
AsU8(a) == a[4] % 256


(***************************************************************************)
(* Guest-physical layout (linux_loader.rs)                                 *)
(***************************************************************************)
GUEST_DTB_ADDR == U4(0, 0, 28672, 0)            \* 0x7000_0000
GUEST_BASE_ADDR == U4(0, 0, 32768, 0)           \* 0x8000_0000
PLIC_ADDR == U4(0, 0, 3072, 0)                  \* 0x0c00_0000
VIRTIO_BLK_ADDR == U4(0, 0, 2560, 0)            \* 0x0a00_0000

\* the names trap.rs imports from linux_loader
GUEST_PLIC_ADDR == PLIC_ADDR
GUEST_VIRTIO_BLK_ADDR == VIRTIO_BLK_ADDR

\* lo <= a < hi
InRange(a, lo, hi) == Le64(lo, a) /\ Lt64(a, hi)

(***************************************************************************)
(* vCPU record (vcpu.rs)                                                   *)
(***************************************************************************)
\* x1..x31 in the order of the match arms of handle_mmio_read/handle_mmio_write
RegName ==
    <<"ra", "sp", "gp", "tp", "t0", "t1", "t2", "s0", "s1",
      "a0", "a1", "a2", "a3", "a4", "a5", "a6", "a7",
      "s2", "s3", "s4", "s5", "s6", "s7", "s8", "s9", "s10", "s11",
      "t3", "t4", "t5", "t6">>

GprIdx == 1..31

CsrFields == {"host_sp", "hstatus", "hgatp", "sstatus", "sepc"}

GprFields == {RegName[i] : i \in GprIdx}

\* #[derive(Default)]: every field zero
VCpu_default == [f \in CsrFields \cup GprFields |-> Zero64]

\* alloc_pages(512 KiB): the allocator is outside this model, the page it
\* returns is a fixed host address
StackPages == U4(0, 0, 33024, 0)

\* GuestPageTable::hgatp(): mode 9 (Sv48x4) in bits 63..60, root PPN below
TableHgatp == U4(36864, 0, 8, 33280)

\* the address of the VCpu object that run() publishes in sscratch
VCpuPtr == U4(0, 0, 32800, 4096)

VCpu_new(guest_entry) ==
    LET hstatus == Or64(U4(0, 2, 0, 0), U4(0, 0, 0, 128))   \* VSXL=2 << 32 | SPV << 7
        sstatus == U4(0, 0, 0, 256)                         \* SPP << 8
        stack_size == U(512 * 1024)
        host_sp == Add64(StackPages, stack_size)
    IN  [VCpu_default EXCEPT !.hstatus = hstatus,
                             !.hgatp = TableHgatp,
                             !.sstatus = sstatus,
                             !.sepc = guest_entry,
                             !.host_sp = host_sp]

(***************************************************************************)
(* PLIC model (plic.rs): irq_pending is a set of u16                       *)
(***************************************************************************)
Plic_new == {}

\* mutant of SetMin: the highest pending IRQ is taken
SetMin_Highest(S) == CHOOSE x \in S : \A y \in S : y <= x

\* the least element of a non-empty set of naturals (BTreeSet iteration order)
SetMin(S) == CHOOSE k \in S : \A j \in S : k <= j

IsContextReg(offset, width, low12) ==
    /\ InRange(offset, U4(0, 0, 32, 0), U4(0, 0, 1024, 0))   \* 0x200000..0x4000000
    /\ width = 4
    /\ offset[4] % 4096 = low12

Plic_handle_write(irq_pending, offset, value, width) ==
    IF InRange(offset, U(0), U(4096)) /\ width = 4 THEN irq_pending
    ELSE IF InRange(offset, U(8192), U4(0, 0, 32, 0)) /\ width = 4 THEN irq_pending
    ELSE IF IsContextReg(offset, width, 0) THEN irq_pending
    ELSE IF IsContextReg(offset, width, 4)
    THEN (IF value = U(1) THEN irq_pending \ {1} ELSE irq_pending)
    ELSE irq_pending

Plic_handle_read(irq_pending, offset, width) ==
    IF InRange(offset, U(8192), U4(0, 0, 32, 0)) /\ width = 4 THEN Zero64
    ELSE IF IsContextReg(offset, width, 4)
    THEN (IF irq_pending = {} THEN Zero64 ELSE U(SetMin(irq_pending)))
    ELSE Zero64

Plic_add_pending_irq(irq_pending, irq) == irq_pending \cup {irq}

Plic_has_pending_irqs(irq_pending) == irq_pending # {}


(***************************************************************************)
(* SBI front-end (trap.rs)                                                 *)
(*                                                                         *)
(* The handlers are functions of a machine record m:                       *)
(*   vcpu        the VCpu record                                           *)
(*   irq_pending the PLIC's pending set                                    *)
(*   blk         the VirtioBlk record                                      *)
(*   ram         guest RAM as the device sees it                           *)
(*   console     CONSOLE_BUFFER                                            *)
(*   panicked    a panic!/assert! fired: the host is in panic_handler      *)
(*   log         the host lines println! wrote during this handler         *)
(*   route       the device call the MMIO router made, if any              *)
(***************************************************************************)
NewLine == 10

\* core::str::from_utf8(bytes).is_ok()
Cont(b) == b >= 128 /\ b <= 191

RECURSIVE IsUtf8(_)
IsUtf8(s) ==
    IF s = <<>> THEN TRUE
    ELSE LET b == s[1]
             n == Len(s)
             rest(k) == SubSeq(s, k + 1, n)
         IN  IF b < 128 THEN IsUtf8(rest(1))
             ELSE IF b >= 194 /\ b <= 223
             THEN n >= 2 /\ Cont(s[2]) /\ IsUtf8(rest(2))
             ELSE IF b = 224
             THEN n >= 3 /\ s[2] >= 160 /\ s[2] <= 191 /\ Cont(s[3]) /\ IsUtf8(rest(3))
             ELSE IF b = 237
             THEN n >= 3 /\ s[2] >= 128 /\ s[2] <= 159 /\ Cont(s[3]) /\ IsUtf8(rest(3))
             ELSE IF b >= 225 /\ b <= 239
             THEN n >= 3 /\ Cont(s[2]) /\ Cont(s[3]) /\ IsUtf8(rest(3))
             ELSE IF b = 240
             THEN n >= 4 /\ s[2] >= 144 /\ s[2] <= 191 /\ Cont(s[3]) /\ Cont(s[4])
                  /\ IsUtf8(rest(4))
             ELSE IF b >= 241 /\ b <= 243
             THEN n >= 4 /\ Cont(s[2]) /\ Cont(s[3]) /\ Cont(s[4]) /\ IsUtf8(rest(4))
             ELSE IF b = 244
             THEN n >= 4 /\ s[2] >= 128 /\ s[2] <= 143 /\ Cont(s[3]) /\ Cont(s[4])
                  /\ IsUtf8(rest(4))
             ELSE FALSE

GuestPrefix == <<91, 103, 117, 101, 115, 116, 93, 32>>              \* "[guest] "
NotUtf8Text == <<40, 110, 111, 116, 32, 117, 116, 102, 45, 56, 41>>   \* "(not utf-8)"

\* one host line written by println!, without its newline
Line(tag, bytes) == [tag |-> tag, bytes |-> bytes]

\* println!("[guest] {}", from_utf8(&buffer).unwrap_or("(not utf-8)"))
GuestLine(buffer) ==
    Line("guest", GuestPrefix \o (IF IsUtf8(buffer) THEN buffer ELSE NotUtf8Text))

Panic(m) == [m EXCEPT !.panicked = TRUE]

\* the match on result at the end of handle_sbi_call
SbiOk(m, value) == [m EXCEPT !.vcpu.a0 = Zero64, !.vcpu.a1 = I64AsU64(value)]

\* mutant of SbiErr: the error path also writes a1
SbiErr_ClobbersA1(m, err) ==
    [m EXCEPT !.vcpu.a0 = I64AsU64(err), !.vcpu.a1 = Zero64]

SbiErr(m, err) == [m EXCEPT !.vcpu.a0 = I64AsU64(err)]

\* mutant of SbiPutchar: the buffer is not cleared after the line is printed
SbiPutchar_NoClear(m) ==
    LET ch == AsU8(m.vcpu.a0)
    IN  IF ch = NewLine
        THEN [m EXCEPT !.log = Append(@, GuestLine(m.console))]
        ELSE [m EXCEPT !.console = Append(@, ch)]

\* Console Putchar arm
SbiPutchar(m) ==
    LET ch == AsU8(m.vcpu.a0)
    IN  IF ch = NewLine
        THEN [m EXCEPT !.log = Append(@, GuestLine(m.console)), !.console = <<>>]
        ELSE [m EXCEPT !.console = Append(@, ch)]

handle_sbi_call(m) ==
    LET eid == m.vcpu.a7
        fid == m.vcpu.a6
    IN  IF eid = U(0) /\ fid = U(0)
        THEN SbiOk([m EXCEPT !.log = Append(@, Line("sbi-warn", <<>>))], 0)
        ELSE IF eid = U(16) /\ fid = U(0) THEN SbiOk(m, 0)
        ELSE IF eid = U(16) /\ fid = U(3) THEN SbiErr(m, -1)
        ELSE IF eid = U(16) /\ fid \in {U(4), U(5), U(6)} THEN SbiOk(m, 0)
        ELSE IF eid = U(1) /\ fid = U(0) THEN SbiOk(SbiPutchar(m), 0)
        ELSE IF eid = U(2) /\ fid = U(0) THEN SbiErr(m, -1)
        ELSE Panic(m)


(***************************************************************************)
(* Guest RAM as the device reads and writes it.                            *)
(* ram maps a byte offset from GUEST_BASE_ADDR to a non-zero byte; every   *)
(* offset outside its domain holds 0.                                      *)
(***************************************************************************)
MEMORY_SIZE == U4(0, 0, 1024, 0)                \* 64 * 1024 * 1024

RamByte(ram, off) == IF off \in DOMAIN ram THEN ram[off] ELSE 0

Read16(ram, off) == RamByte(ram, off) + 256 * RamByte(ram, off + 1)

\* a u32 is the pair <<high 16 bits, low 16 bits>>
Read32(ram, off) == <<Read16(ram, off + 2), Read16(ram, off)>>

Read64(ram, off) ==
    <<Read16(ram, off + 6), Read16(ram, off + 4), Read16(ram, off + 2), Read16(ram, off)>>

\* store the bytes bs at off .. off + Len(bs) - 1
RamStore(ram, off, bs) ==
    LET hit(o) == o >= off /\ o < off + Len(bs)
        val(o) == IF hit(o) THEN bs[o - off + 1] ELSE RamByte(ram, o)
        dom == {o \in DOMAIN ram \cup (off..(off + Len(bs) - 1)) : val(o) # 0}
    IN  [o \in dom |-> val(o)]

Bytes16(n) == <<n % 256, n \div 256>>

Bytes32(w) == Bytes16(w[2]) \o Bytes16(w[1])

Bytes64(a) == Bytes16(a[4]) \o Bytes16(a[3]) \o Bytes16(a[2]) \o Bytes16(a[1])

\* GuestMemory::resolve_guest_addr: the offset of guest_addr in the RAM region,
\* or -1 when guest_addr is outside [guest_base, guest_base + SIZE)
resolve_guest_addr(guest_addr) ==
    IF InRange(guest_addr, GUEST_BASE_ADDR, Add64(GUEST_BASE_ADDR, MEMORY_SIZE))
    THEN LET o == Sub64(guest_addr, GUEST_BASE_ADDR) IN o[3] * Limb + o[4]
    ELSE -1

(***************************************************************************)
(* VirtIO-MMIO block device (virtio_blk.rs)                                *)
(***************************************************************************)
Zero32 == <<0, 0>>

set_low_32(value, low) == <<value[1], value[2], low[1], low[2]>>

set_high_32(value, high) == <<high[1], high[2], value[3], value[4]>>

get_low_32(value) == <<value[3], value[4]>>

get_high_32(value) == <<value[1], value[2]>>

\* `x as u64` of a u32
U32AsU64(w) == <<0, 0, w[1], w[2]>>

VirtioBlk_new ==
    [device_features_sel |-> Zero32,
     driver_features_sel |-> Zero32,
     driver_features |-> <<Zero32, Zero32>>,
     queue_sel |-> Zero32,
     device_status |-> Zero32,
     queue_num |-> Zero32,
     queue_desc |-> Zero64,
     queue_avail |-> Zero64,
     queue_used |-> Zero64,
     queue_ready |-> Zero32,
     irq_status |-> Zero32]

VIRTQ_DESC_F_NEXT == 1
VIRTIO_BLK_T_IN == 0

\* the length of the embedded disk image and its bytes (rootfs.squashfs)
DiskLen == 1030

DiskByte(i) == 1 + ((i * 7) % 255)

\* a << 9 (x * 512, wrapping)
Shl9(a) ==
    LET q == Limb \div 512
    IN  <<((a[1] * 512) % Limb) + (a[2] \div q),
          ((a[2] * 512) % Limb) + (a[3] \div q),
          ((a[3] * 512) % Limb) + (a[4] \div q),
          (a[4] * 512) % Limb>>

\* x * 512 overflows u64
Mul512Overflows(a) == a[1] \div (Limb \div 512) # 0


\* the bytes DISK_IMAGE[offset .. offset + n)
DiskBytes(offset, n) == [k \in 1..n |-> DiskByte(offset + k - 1)]

\* mutant of ServeRequest: the interrupt is raised and nothing is published
ServeRequest_IrqOnly(m, d, u, desc_idx, desc_next, sector, last_used_idx) ==
    [m EXCEPT !.blk.irq_status = <<@[1], OrN(@[2], 1)>>,
              !.irq_pending = Plic_add_pending_irq(@, 1)]

\* one iteration of the loop of process_virtqueue that found VIRTQ_DESC_F_NEXT
\* set in the head descriptor: the data copy, the status write, the used
\* element, used.idx, irq_status and the PLIC
ServeRequest(m, d, u, desc_idx, desc_next, sector, last_used_idx) ==
    LET ddoff == d + 16 * desc_next
        data_addr == Read64(m.ram, ddoff)
        data_len == Read32(m.ram, ddoff + 8)
        data_flags == Read16(m.ram, ddoff + 12)
        data_next == Read16(m.ram, ddoff + 14)
        data_ptr == resolve_guest_addr(data_addr)
        offset == Shl9(sector)
        inDisk == Lt64(offset, U(DiskLen))
        left == IF inDisk THEN DiskLen - (offset[3] * Limb + offset[4]) ELSE 0
        copy_len == IF data_len[1] = 0 /\ data_len[2] < left THEN data_len[2] ELSE left
        ram1 == IF inDisk
                THEN RamStore(m.ram, data_ptr, DiskBytes(offset[3] * Limb + offset[4], copy_len))
                ELSE m.ram
        hasStatus == data_flags % 2 = VIRTQ_DESC_F_NEXT
        status_addr == Read64(ram1, d + 16 * data_next)
        status_ptr == resolve_guest_addr(status_addr)
        ram2 == IF hasStatus THEN RamStore(ram1, status_ptr, <<0, 0, 0, 0>>) ELSE ram1
        elem == Bytes32(<<0, desc_idx>>) \o Bytes32(<<0, copy_len>>)
        ram3 == RamStore(ram2, u + 4 + 8 * (last_used_idx % 256), elem)
        next_idx == (last_used_idx + 1) % Limb
        ram4 == RamStore(ram3, u + 2, Bytes16(next_idx))
        m1 == [m EXCEPT !.log = Append(@, Line("virtio-blk-read", <<>>))]
    IN  IF data_ptr = -1 THEN Panic(m)
        ELSE IF m.checked /\ Mul512Overflows(sector) THEN Panic(m)
        ELSE IF hasStatus /\ status_ptr = -1 THEN Panic([m1 EXCEPT !.ram = ram1])
        ELSE IF m.checked /\ last_used_idx + 1 = Limb THEN Panic([m1 EXCEPT !.ram = ram3])
        ELSE [m1 EXCEPT !.ram = ram4,
                        !.blk.irq_status = <<@[1], OrN(@[2], 1)>>,
                        !.irq_pending = Plic_add_pending_irq(@, 1)]

\* for i in last_used_idx..avail.idx, from iteration i on
RECURSIVE ProcessFrom(_, _, _, _, _, _, _)
ProcessFrom(m, a, d, u, i, end, last_used_idx) ==
    IF i >= end \/ m.panicked THEN m
    ELSE LET desc_idx == Read16(m.ram, a + 4 + 2 * (i % 256))
             doff == d + 16 * desc_idx
             desc_addr == Read64(m.ram, doff)
             desc_flags == Read16(m.ram, doff + 12)
             desc_next == Read16(m.ram, doff + 14)
             req_ptr == resolve_guest_addr(desc_addr)
             req_type == Read32(m.ram, req_ptr)
             sector == Read64(m.ram, req_ptr + 8)
         IN  IF req_ptr = -1 THEN Panic(m)
             ELSE IF req_type # <<0, VIRTIO_BLK_T_IN>> THEN Panic(m)
             ELSE IF desc_flags % 2 = VIRTQ_DESC_F_NEXT
             THEN LET m1 == ServeRequest(m, d, u, desc_idx, desc_next, sector, last_used_idx)
                  IN  ProcessFrom(m1, a, d, u, i + 1, end, (last_used_idx + 1) % Limb)
             ELSE ProcessFrom(m, a, d, u, i + 1, end, last_used_idx)

\* mutant of process_virtqueue: queue_ready is not looked at
process_virtqueue_AnyReady(m) ==
    LET a == resolve_guest_addr(m.blk.queue_avail)
        d == resolve_guest_addr(m.blk.queue_desc)
        u == resolve_guest_addr(m.blk.queue_used)
    IN  IF a = -1 \/ d = -1 \/ u = -1 THEN Panic(m)
        ELSE LET last_used_idx == Read16(m.ram, u + 2)
                 avail_idx == Read16(m.ram, a + 2)
             IN  ProcessFrom(m, a, d, u, last_used_idx, avail_idx, last_used_idx)

\* process_virtqueue
process_virtqueue(m) ==
    IF m.blk.queue_ready = Zero32 THEN m
    ELSE LET a == resolve_guest_addr(m.blk.queue_avail)
             d == resolve_guest_addr(m.blk.queue_desc)
             u == resolve_guest_addr(m.blk.queue_used)
         IN  IF a = -1 \/ d = -1 \/ u = -1 THEN Panic(m)
             ELSE LET last_used_idx == Read16(m.ram, u + 2)
                      avail_idx == Read16(m.ram, a + 2)
                  IN  ProcessFrom(m, a, d, u, last_used_idx, avail_idx, last_used_idx)

\* the register offsets of the window, as the natural they denote
RegOff(offset) == IF offset[1] = 0 /\ offset[2] = 0 /\ offset[3] = 0 THEN offset[4] ELSE -1

VirtioBlk_handle_mmio_write(m, guest_addr, value, width) ==
    LET r == RegOff(guest_addr)
        v == AsU32(value)
        sel == m.blk.driver_features_sel
    IN  IF width # 4 THEN Panic(m)
        ELSE IF r = 20 THEN [m EXCEPT !.blk.device_features_sel = v]          \* 0x14
        ELSE IF r = 32                                                        \* 0x20
        THEN (IF sel[1] = 0 /\ sel[2] < 2
              THEN [m EXCEPT !.blk.driver_features[sel[2] + 1] = v]
              ELSE m)
        ELSE IF r = 36 THEN [m EXCEPT !.blk.driver_features_sel = v]          \* 0x24
        ELSE IF r = 48 THEN [m EXCEPT !.blk.queue_sel = v]                    \* 0x30
        ELSE IF r = 56 THEN [m EXCEPT !.blk.queue_num = v]                    \* 0x38
        ELSE IF r = 68 THEN [m EXCEPT !.blk.queue_ready = v]                  \* 0x44
        ELSE IF r = 80 THEN process_virtqueue(m)                              \* 0x50
        ELSE IF r = 112 THEN [m EXCEPT !.blk.device_status = v]               \* 0x70
        ELSE IF r = 128 THEN [m EXCEPT !.blk.queue_desc = set_low_32(@, v)]   \* 0x80
        ELSE IF r = 132 THEN [m EXCEPT !.blk.queue_desc = set_high_32(@, v)]  \* 0x84
        ELSE IF r = 144 THEN [m EXCEPT !.blk.queue_avail = set_low_32(@, v)]  \* 0x90
        ELSE IF r = 148 THEN [m EXCEPT !.blk.queue_avail = set_high_32(@, v)] \* 0x94
        ELSE IF r = 160 THEN [m EXCEPT !.blk.queue_used = set_low_32(@, v)]   \* 0xa0
        ELSE IF r = 164 THEN [m EXCEPT !.blk.queue_used = set_high_32(@, v)]  \* 0xa4
        ELSE IF r = 96                                                        \* 0x60
        THEN [m EXCEPT !.blk.irq_status =
                           <<AndN(@[1], Limb - 1 - v[1]), AndN(@[2], Limb - 1 - v[2])>>]
        ELSE IF r = 100 THEN m                                                \* 0x64
        ELSE Panic(m)

\* what handle_mmio_read stands for when it panics instead of returning
NoValue == <<>>

\* the value read, or NoValue when the match panics
VirtioBlk_handle_mmio_read(blk, guest_addr, width) ==
    LET r == RegOff(guest_addr)
        sel == blk.driver_features_sel
    IN  IF r = 0 THEN U4(0, 0, 29810, 26998)                                  \* 0x74726976
        ELSE IF r = 4 THEN U(2)
        ELSE IF r = 8 THEN U(2)
        ELSE IF r = 12 THEN U4(0, 0, 21837, 17745)                            \* 0x554d4551
        ELSE IF r = 16
        THEN (IF blk.device_features_sel = <<0, 1>> THEN U(1) ELSE Zero64)
        ELSE IF r = 32
        THEN (IF sel[1] = 0 /\ sel[2] < 2
              THEN U32AsU64(blk.driver_features[sel[2] + 1])
              ELSE Zero64)
        ELSE IF r = 52 THEN U(256)                                            \* 0x34
        ELSE IF r = 56 THEN U32AsU64(blk.queue_num)
        ELSE IF r = 68 THEN U32AsU64(blk.queue_ready)
        ELSE IF r = 112 THEN U32AsU64(blk.device_status)
        ELSE IF r = 128 THEN U32AsU64(get_low_32(blk.queue_desc))
        ELSE IF r = 132 THEN U32AsU64(get_high_32(blk.queue_desc))
        ELSE IF r = 144 THEN U32AsU64(get_low_32(blk.queue_avail))
        ELSE IF r = 148 THEN U32AsU64(get_high_32(blk.queue_avail))
        ELSE IF r = 160 THEN U32AsU64(get_low_32(blk.queue_used))
        ELSE IF r = 164 THEN U32AsU64(get_high_32(blk.queue_used))
        ELSE IF r = 256 THEN U(128 * 1024)                                    \* 0x100
        ELSE IF r = 260 THEN Zero64                                           \* 0x104
        ELSE IF r = 96 THEN U32AsU64(blk.irq_status)                          \* 0x60
        ELSE IF r = 252 THEN Zero64                                           \* 0xfc
        ELSE NoValue


(***************************************************************************)
(* MMIO router and trap dispatcher (trap.rs)                               *)
(***************************************************************************)
PlicWindow == U4(0, 0, 64, 0)                   \* 0x400000
VirtioWindow == U(4096)                         \* 0x1000

InPlic(guest_addr) ==
    InRange(guest_addr, GUEST_PLIC_ADDR, Add64(GUEST_PLIC_ADDR, PlicWindow))

InVirtio(guest_addr) ==
    InRange(guest_addr, GUEST_VIRTIO_BLK_ADDR, Add64(GUEST_VIRTIO_BLK_ADDR, VirtioWindow))

\* the device call the router made
Route(dev, offset, width) == [dev |-> dev, offset |-> offset, width |-> width]

NoRoute == Route("none", Zero64, 0)

\* the match arms of Plic::handle_write / handle_read other than the logging one
PlicWriteDecoded(offset, width) ==
    \/ InRange(offset, U(0), U(4096)) /\ width = 4
    \/ InRange(offset, U(8192), U4(0, 0, 32, 0)) /\ width = 4
    \/ IsContextReg(offset, width, 0)
    \/ IsContextReg(offset, width, 4)

PlicReadDecoded(offset, width) ==
    \/ InRange(offset, U(8192), U4(0, 0, 32, 0)) /\ width = 4
    \/ IsContextReg(offset, width, 4)

\* the value of register reg in the vCPU record, x0 reading 0
GprValue(vcpu, reg) == IF reg = 0 THEN Zero64 ELSE vcpu[RegName[reg]]

\* the vCPU record with register reg set, writes to x0 ignored
GprSet(vcpu, reg, value) ==
    IF reg = 0 THEN vcpu ELSE [vcpu EXCEPT ![RegName[reg]] = value]

handle_mmio_write(m, guest_addr, reg, width) ==
    LET value == GprValue(m.vcpu, reg)
    IN  IF InPlic(guest_addr)
        THEN LET offset == Sub64(guest_addr, GUEST_PLIC_ADDR)
             IN  [m EXCEPT !.irq_pending = Plic_handle_write(@, offset, value, width),
                           !.log = IF PlicWriteDecoded(offset, width) THEN @
                                   ELSE Append(@, Line("plic-unknown-write", <<>>)),
                           !.route = Route("plic", offset, width)]
        ELSE IF InVirtio(guest_addr)
        THEN LET offset == Sub64(guest_addr, GUEST_VIRTIO_BLK_ADDR)
             IN  VirtioBlk_handle_mmio_write(
                     [m EXCEPT !.route = Route("virtio", offset, width)],
                     offset, value, width)
        ELSE [m EXCEPT !.log = Append(@, Line("mmio-write", <<>>)),
                       !.route = Route("log", guest_addr, width)]

handle_mmio_read(m, guest_addr, reg, width) ==
    IF InPlic(guest_addr)
    THEN LET offset == Sub64(guest_addr, GUEST_PLIC_ADDR)
             value == Plic_handle_read(m.irq_pending, offset, width)
         IN  [m EXCEPT !.vcpu = GprSet(@, reg, value),
                       !.log = IF PlicReadDecoded(offset, width) THEN @
                               ELSE Append(@, Line("plic-unknown-read", <<>>)),
                       !.route = Route("plic", offset, width)]
    ELSE IF InVirtio(guest_addr)
    THEN LET offset == Sub64(guest_addr, GUEST_VIRTIO_BLK_ADDR)
             value == VirtioBlk_handle_mmio_read(m.blk, offset, width)
             m1 == [m EXCEPT !.route = Route("virtio", offset, width)]
         IN  IF value = NoValue THEN Panic(m1)
             ELSE [m1 EXCEPT !.vcpu = GprSet(@, reg, value)]
    ELSE [m EXCEPT !.vcpu = GprSet(@, reg, Zero64),
                   !.log = Append(@, Line("mmio-read", <<>>)),
                   !.route = Route("log", guest_addr, width)]

\* scause with the interrupt bit and cause code n
Interrupt(n) == U4(32768, 0, 0, n)

\* the causes handle_trap has a name for
KnownScause ==
    {U(n) : n \in (0..13) \cup {15} \cup (20..23)} \cup {Interrupt(n) : n \in 0..11}

\* the width match on (htinst & 0x7f, (htinst >> 12) & 0x7)
AccessWidth(htinst) ==
    LET opcode == Bits(htinst, 0, 7)
        funct3 == Bits(htinst, 12, 3)
    IN  IF opcode = 3 /\ funct3 \in {0, 4} THEN 1
        ELSE IF opcode = 3 /\ funct3 \in {1, 5} THEN 2
        ELSE IF opcode = 3 /\ funct3 \in {2, 6} THEN 4
        ELSE IF opcode = 3 /\ funct3 = 3 THEN 8
        ELSE IF opcode = 35 /\ funct3 = 0 THEN 1
        ELSE IF opcode = 35 /\ funct3 = 1 THEN 2
        ELSE IF opcode = 35 /\ funct3 = 2 THEN 4
        ELSE IF opcode = 35 /\ funct3 = 3 THEN 8
        ELSE 4

\* mutant of FaultAddr: htval used without the shift
FaultAddr_NoShift(htval, stval) == Or64(htval, And64(stval, U(3)))

\* (htval << 2) | (stval & 0b11)
FaultAddr(htval, stval) == Or64(Shl2(htval), And64(stval, U(3)))

\* mutant of InstLen: every instruction taken to be four bytes long
InstLen_AlwaysFour(htinst) == 4

\* let inst_len = if htinst & (1 << 1) == 0 { 2 } else { 4 }
InstLen(htinst) == IF Bits(htinst, 1, 1) = 0 THEN 2 ELSE 4

\* vcpu.sepc = sepc + n: an overflow panics in a build with overflow checks
\* and wraps in one without
AdvanceSepc(m, sepc, n) ==
    IF m.checked /\ Lt64(Add64(sepc, U(n)), sepc) THEN Panic(m)
    ELSE [m EXCEPT !.vcpu.sepc = Add64(sepc, U(n))]

\* handle_trap up to, not including, the final vcpu.run()
handle_trap(m, scause, sepc, stval, htinst, htval) ==
    IF scause \notin KnownScause THEN Panic(m)
    ELSE IF scause = U(10)
    THEN LET m1 == handle_sbi_call(m)
         IN  IF m1.panicked THEN m1 ELSE AdvanceSepc(m1, sepc, 4)
    ELSE IF scause \in {U(21), U(23)}
    THEN IF htinst = Zero64 THEN Panic(m)
         ELSE LET guest_addr == FaultAddr(htval, stval)
                  is_write == scause = U(23)
                  width == AccessWidth(htinst)
                  m1 == IF is_write
                        THEN handle_mmio_write(m, guest_addr, Bits(htinst, 20, 5), width)
                        ELSE handle_mmio_read(m, guest_addr, Bits(htinst, 7, 5), width)
              IN  IF m1.panicked THEN m1 ELSE AdvanceSepc(m1, sepc, InstLen(htinst))
    ELSE Panic(m)


(***************************************************************************)
(* The machine                                                             *)
(***************************************************************************)
VARIABLES
    vcpu,             \* the VCpu record main constructs
    hart,             \* the hart: GPRs x1..x31, pc, privilege and the CSRs run() writes
    pc,               \* "main" before the first run(), "guest" after an sret, "panic"
    irq_pending,      \* PLIC.irq_pending
    blk,              \* the VirtioBlk record
    ram,              \* guest RAM
    console,          \* CONSOLE_BUFFER
    overflow_checks,  \* the build panics on integer overflow (else it wraps)
    trap,             \* the last guest exit: the CSRs and GPRs at the trap and
                      \* what the dispatcher did with it
    op                \* the last direct call of a PLIC method and its result

vars == <<vcpu, hart, pc, irq_pending, blk, ram, console, overflow_checks, trap, op>>

\* the field of the vCPU record that holds register x_i, and back
RegIdx(f) == CHOOSE i \in GprIdx : RegName[i] = f

\* trap_handler: csrrw a0, sscratch, a0; sd x_i, offset(a0) for every register;
\* the guest's a0 comes back from sscratch.  x is the guest's register file.
trap_handler(v, x) ==
    [f \in DOMAIN v |-> IF f \in GprFields THEN x[RegIdx(f)] ELSE v[f]]

\* mutant of EntrySp: the stack is not switched, sp still holds the guest's sp
EntrySp_GuestSp(v) == v.sp

\* `ld sp, {host_sp_offset}(a0)`: the stack pointer handle_trap is called with,
\* v being the vCPU record after the registers were saved
EntrySp(v) == v.host_sp

\* what sret does with hstatus.SPV (bit 7) and sstatus.SPP (bit 8)
SretPriv(hstatus, sstatus) ==
    IF Bits(hstatus, 7, 1) = 1
    THEN (IF Bits(sstatus, 8, 1) = 1 THEN "VS" ELSE "VU")
    ELSE (IF Bits(sstatus, 8, 1) = 1 THEN "HS" ELSE "U")

\* values host code leaves in registers it does not load from the vCPU
HostScratch == {Zero64, U4(0, 0, 32801, 61440)}

\* VCpu::run: five csrw and sret.  No GPR is loaded from the vCPU record: the
\* guest starts with whatever the host had in its registers, among them the
\* five in(reg) operands of the asm! block.
run(v, h) ==
    {[x |-> [i \in GprIdx |->
                IF i = 10 THEN v.hstatus
                ELSE IF i = 11 THEN v.sstatus
                ELSE IF i = 12 THEN VCpuPtr
                ELSE IF i = 13 THEN v.hgatp
                ELSE IF i = 14 THEN v.sepc
                ELSE junk],
      pc |-> v.sepc,
      priv |-> SretPriv(v.hstatus, v.sstatus),
      hstatus |-> v.hstatus,
      sstatus |-> v.sstatus,
      sscratch |-> VCpuPtr,
      hgatp |-> v.hgatp,
      sepc |-> v.sepc,
      hvip |-> h.hvip] : junk \in HostScratch}

NoTrap ==
    [taken |-> FALSE, scause |-> Zero64, sepc |-> Zero64, stval |-> Zero64,
     htinst |-> Zero64, htval |-> Zero64, x |-> [i \in GprIdx |-> Zero64],
     panicked |-> FALSE, log |-> <<>>, route |-> NoRoute, host_sp |-> Zero64]

NoOp == [name |-> "none", offset |-> Zero64, value |-> Zero64, width |-> 0, ret |-> Zero64]

\* main: VCpu::new(&table, GUEST_BASE_ADDR); vcpu.a0 = 0; vcpu.a1 = GUEST_DTB_ADDR
Init ==
    /\ vcpu = [VCpu_new(GUEST_BASE_ADDR) EXCEPT !.a0 = U(0), !.a1 = GUEST_DTB_ADDR]
    /\ hart = [x |-> [i \in GprIdx |-> Zero64], pc |-> Zero64, priv |-> "HS",
               hstatus |-> Zero64, sstatus |-> Zero64, sscratch |-> Zero64,
               hgatp |-> Zero64, sepc |-> Zero64, hvip |-> Zero64]
    /\ pc = "main"
    /\ irq_pending = Plic_new
    /\ blk = VirtioBlk_new
    /\ ram = <<>>
    /\ console = <<>>
    /\ overflow_checks \in BOOLEAN
    /\ trap = NoTrap
    /\ op = NoOp

\* main: vcpu.run()
MainRun ==
    /\ pc = "main"
    /\ hart' \in run(vcpu, hart)
    /\ pc' = "guest"
    /\ UNCHANGED <<vcpu, irq_pending, blk, ram, console, overflow_checks, trap, op>>

\* the lines the guest prints: the console buffer holds a prefix of one of them
GuestLines ==
    {<<72, 101, 108, 108, 111>>,        \* "Hello"
     <<65>>,                            \* "A"
     <<195, 169, 33>>,                  \* e-acute (two bytes), "!"
     <<104, 255>>,                      \* 'h', then a byte no UTF-8 text holds
     <<226, 130>>}                      \* a three-byte sequence cut short

IsPrefix(s, l) == Len(s) <= Len(l) /\ s = SubSeq(l, 1, Len(s))

\* s is what the guest has printed of one of its lines
IsGuestText(s) == {l \in GuestLines : IsPrefix(s, l)} # {}

\* the register file of a guest that left c in every register but those in w
GuestFile(c, w) == [i \in GprIdx |-> IF i \in DOMAIN w THEN w[i] ELSE c]

\* One guest exit, t: the guest has run from the last sret and its registers
\* hold t.x; the hart traps with t.scause, t.sepc, t.stval, t.htinst, t.htval;
\* trap_handler saves the registers and calls handle_trap, which ends in
\* vcpu.run() or in a panic.
Trap(t) ==
    /\ pc = "guest"
    /\ hart.sscratch = VCpuPtr
    /\ \E m1 \in {handle_trap([vcpu |-> trap_handler(vcpu, t.x),
                               irq_pending |-> irq_pending, blk |-> blk, ram |-> ram,
                               console |-> console, panicked |-> FALSE, log |-> <<>>,
                               route |-> NoRoute, checked |-> overflow_checks],
                              t.scause, t.sepc, t.stval, t.htinst, t.htval)} :
        /\ IsGuestText(m1.console)
        /\ vcpu' = m1.vcpu
        /\ irq_pending' = m1.irq_pending
        /\ blk' = m1.blk
        /\ ram' = m1.ram
        /\ console' = m1.console
        /\ trap' = [taken |-> TRUE, scause |-> t.scause, sepc |-> t.sepc,
                    stval |-> t.stval, htinst |-> t.htinst, htval |-> t.htval,
                    x |-> t.x, panicked |-> m1.panicked, log |-> m1.log,
                    route |-> m1.route,
                    host_sp |-> EntrySp(trap_handler(vcpu, t.x))]
        /\ IF m1.panicked
           THEN pc' = "panic" /\ hart' = [hart EXCEPT !.priv = "HS"]
           ELSE pc' = "guest" /\ hart' \in run(m1.vcpu, hart)
    /\ UNCHANGED <<overflow_checks, op>>

(***************************************************************************)
(* Guest exits the model draws from                                        *)
(***************************************************************************)
\* a >> 2
Shr2(a) ==
    <<a[1] \div 4,
      ((a[1] % 4) * (Limb \div 4)) + (a[2] \div 4),
      ((a[2] % 4) * (Limb \div 4)) + (a[3] \div 4),
      ((a[3] % 4) * (Limb \div 4)) + (a[4] \div 4)>>

Exit(scause, sepc, stval, htinst, htval, w) ==
    [scause |-> scause, sepc |-> sepc, stval |-> stval, htinst |-> htinst,
     htval |-> htval, x |-> GuestFile(U(7), w)]

\* guest pcs at a trap: the kernel entry, a later halfword-aligned pc, the top
\* of the address space
GuestPcs == {GUEST_BASE_ADDR, U4(0, 0, 32768, 4098), U4(65535, 65535, 65535, 65534)}

\* ecall from VS-mode with a7 = eid, a6 = fid
EcallExit(eid, fid, a0, a1, sepc) ==
    Exit(U(10), sepc, Zero64, Zero64, Zero64,
         (17 :> U(eid)) @@ (16 :> U(fid)) @@ (10 :> a0) @@ (11 :> a1))

\* htinst of a load (opcode 0x03) / a store (opcode 0x23); a compressed
\* instruction is reported with bit 1 clear
LoadInst(rd, funct3, compressed) ==
    U4(0, 0, 0, 3 + rd * 128 + funct3 * 4096 - (IF compressed THEN 2 ELSE 0))

StoreInst(rs2, funct3, compressed) ==
    U4(0, 0, rs2 * 16, 35 + funct3 * 4096 - (IF compressed THEN 2 ELSE 0))

\* a guest-page fault at guest-physical address addr: htval = addr >> 2 and
\* stval carries the low bits
FaultExit(scause, addr, htinst, sepc, w) ==
    Exit(U(scause), sepc, addr, htinst, Shr2(addr), w)

\* the SBI calls the front-end knows and three it does not
SbiCalls ==
    {<<0, 0>>, <<16, 0>>, <<16, 3>>, <<16, 4>>, <<16, 5>>, <<16, 6>>, <<1, 0>>, <<2, 0>>,
     <<16, 1>>, <<3, 0>>, <<1, 1>>}

Ecalls ==
    {EcallExit(c[1], c[2], a0, U(7), GUEST_BASE_ADDR) :
        c \in SbiCalls, a0 \in {U(65), U(NewLine), U4(0, 0, 1, 266)}}
    \cup {EcallExit(16, 0, U(65), U(7), sepc) : sepc \in GuestPcs}

\* addresses the guest touches: PLIC priority, enable, context 1 threshold and
\* claim, the last context inside the 4 MiB the router decodes, the first
\* context beyond it, the last context of the PLIC; the VirtIO window; an
\* address in no window
PlicAt(hi, lo) == Add64(PLIC_ADDR, U4(0, 0, hi, lo))

VirtioAt(off) == Add64(VIRTIO_BLK_ADDR, U(off))

Unclaimed == U4(0, 0, 4096, 0)                  \* 0x1000_0000

LoadAddrs ==
    {PlicAt(0, 4), PlicAt(0, 8192), PlicAt(32, 4100), PlicAt(63, 61444), PlicAt(64, 4),
     PlicAt(1023, 61444), VirtioAt(0), VirtioAt(96), VirtioAt(24), Unclaimed,
     Add64(Unclaimed, U(2))}

LoadInsts ==
    {LoadInst(5, 3, FALSE), LoadInst(5, 2, FALSE), LoadInst(0, 2, FALSE),
     LoadInst(10, 2, TRUE), LoadInst(5, 0, FALSE), LoadInst(5, 1, FALSE)}

LoadExit(a, i) == FaultExit(21, a, i, GUEST_BASE_ADDR, (5 :> U(9)) @@ (10 :> U(1)))

Loads ==
    {LoadExit(a, LoadInst(5, 3, FALSE)) : a \in LoadAddrs}
    \cup {LoadExit(a, i) : a \in {PlicAt(32, 4100), VirtioAt(0)}, i \in LoadInsts}

StoreAddrs ==
    {PlicAt(0, 4), PlicAt(32, 4096), PlicAt(32, 4100), PlicAt(64, 4), PlicAt(1023, 61444),
     VirtioAt(48), VirtioAt(96), VirtioAt(100), VirtioAt(24), Unclaimed}

StoreInsts ==
    {StoreInst(10, 2, FALSE), StoreInst(10, 2, TRUE), StoreInst(10, 3, FALSE),
     StoreInst(0, 2, FALSE), StoreInst(10, 0, FALSE), StoreInst(10, 1, FALSE)}

StoreExit(a, i) == FaultExit(23, a, i, U4(0, 0, 32768, 4098), (10 :> U(1)))

Stores ==
    {StoreExit(a, StoreInst(10, 2, FALSE)) : a \in StoreAddrs}
    \cup {StoreExit(a, i) : a \in {PlicAt(32, 4100), VirtioAt(96)}, i \in StoreInsts}

\* exits the dispatcher has no handler for: an illegal instruction, supervisor
\* timer and external interrupts, a cause it has no name for, a guest-page
\* fault that reports no instruction
Fatals ==
    {Exit(c, GUEST_BASE_ADDR, Zero64, Zero64, Zero64, <<>>) :
        c \in {U(2), Interrupt(5), Interrupt(9), U(24), Interrupt(12)}}
    \cup {Exit(U(21), GUEST_BASE_ADDR, VirtioAt(0), Zero64, Shr2(VirtioAt(0)), <<>>)}

Ecall == \E t \in Ecalls : Trap(t)

LoadFault == \E t \in Loads : Trap(t)

StoreFault == \E t \in Stores : Trap(t)

FatalTrap == \E t \in Fatals : Trap(t)

Next == MainRun \/ Ecall \/ LoadFault \/ StoreFault \/ FatalTrap

Spec == Init /\ [][Next]_vars


(***************************************************************************)
(* Properties of the trap path, checked under Spec                         *)
(***************************************************************************)
\* the guest was resumed from a trap the dispatcher handled
Resumed == pc = "guest" /\ trap.taken

\* the GPR fields of the vCPU record equal the register file x, except at the
\* registers in S
SameGprsExcept(v, x, S) == \A i \in GprIdx \ S : v[RegName[i]] = x[i]

AllOnes == U4(65535, 65535, 65535, 65535)

\* C1: when the guest resumes after a handled trap, every GPR x1..x31 of the
\* hart holds the value the vCPU record stores for it at that moment.
C1_GprsRestoredAtResume ==
    Resumed => \A i \in GprIdx : hart.x[i] = vcpu[RegName[i]]

\* C2: at the first sret the guest observes a0 = 0, a1 = 0x7000_0000,
\* pc = 0x8000_0000, privilege VS (hstatus.SPV = 1, VSXL = 2, sstatus.SPP = 1)
\* and every other GPR zero.
C2_FirstEntryAbi ==
    (pc = "guest" /\ ~trap.taken) =>
        /\ hart.x[10] = U(0)
        /\ hart.x[11] = U4(0, 0, 28672, 0)
        /\ hart.pc = U4(0, 0, 32768, 0)
        /\ hart.priv = "VS"
        /\ Bits(hart.hstatus, 7, 1) = 1
        /\ hart.hstatus[2] % 4 = 2
        /\ Bits(hart.sstatus, 8, 1) = 1
        /\ \A i \in GprIdx \ {10, 11} : hart.x[i] = Zero64

\* the part of C2 that does not rest on the GPRs: pc, privilege and CSRs
C2_FirstEntryPcAndPrivilege ==
    (pc = "guest" /\ ~trap.taken) =>
        /\ hart.pc = U4(0, 0, 32768, 0)
        /\ hart.priv = "VS"
        /\ vcpu.a0 = U(0)
        /\ vcpu.a1 = U4(0, 0, 28672, 0)

\* the sepc the claim C3 expects after the trap recorded in tr
ExpectedSepc(tr) ==
    IF tr.scause = U(10) THEN Add64(tr.sepc, U(4))
    ELSE IF (tr.htinst[4] \div 2) % 2 = 0 THEN Add64(tr.sepc, U(2))
    ELSE Add64(tr.sepc, U(4))

\* C3: after every handled trap the sepc written at the next sret is the
\* trapped sepc + 4 for scause 10, and for scause 21 and 23 the trapped
\* sepc + 2 when bit 1 of htinst is 0 and + 4 otherwise; no other step
\* changes vcpu.sepc.
C3_SepcAdvance ==
    [][/\ (pc' = "guest" /\ trap'.taken) =>
              /\ trap'.scause \in {U(10), U(21), U(23)}
              /\ vcpu'.sepc = ExpectedSepc(trap')
              /\ hart'.sepc = vcpu'.sepc
              /\ hart'.pc = vcpu'.sepc
       /\ (pc' = "panic" \/ ~trap'.taken) => vcpu'.sepc = vcpu.sepc]_vars

C3_Witness ==
    /\ Resumed
    /\ trap.scause = U(21)
    /\ (trap.htinst[4] \div 2) % 2 = 0
    /\ hart.sepc = Add64(trap.sepc, U(2))

\* the guest-physical address of the fault recorded in tr
TrapAddr(tr) == Add64(Shl2(tr.htval), U(tr.stval[4] % 4))

IsFault(tr) == tr.taken /\ tr.scause \in {U(21), U(23)} /\ tr.htinst # Zero64

\* the load guest-page fault of scenario S3 at guest-physical address a:
\* stval = a, htval = a >> 2, htinst = ld x5, 0(x0)
IsLdT0At(tr, stval, htval) ==
    /\ tr.taken
    /\ tr.scause = U(21)
    /\ tr.stval = stval
    /\ tr.htval = htval
    /\ tr.htinst = U4(0, 0, 0, 12931)           \* 0x00003283

VirtioMagic == U4(0, 0, 29810, 26998)           \* 0x74726976

\* what C4 says the dispatcher does with the load it describes
S3Outcome(tr) ==
    /\ ~tr.panicked
    /\ tr.route = Route("virtio", Zero64, 8)
    /\ vcpu.t0 = VirtioMagic
    /\ SameGprsExcept(vcpu, tr.x, {5})
    /\ vcpu.sepc = Add64(tr.sepc, U(4))

\* every fault the router passed on went to the address (htval << 2) | (stval & 3)
RoutedByFaultAddr(tr) ==
    (IsFault(tr) /\ tr.route.dev # "none") =>
        \/ tr.route.dev = "plic" /\ Add64(tr.route.offset, PLIC_ADDR) = TrapAddr(tr)
        \/ tr.route.dev = "virtio" /\ Add64(tr.route.offset, VIRTIO_BLK_ADDR) = TrapAddr(tr)
        \/ tr.route.dev = "log" /\ tr.route.offset = TrapAddr(tr)

C5_PlicRangeRoutedToPlic ==
    (IsFault(trap) /\ InRange(TrapAddr(trap), U4(0, 0, 3072, 0), U4(0, 0, 4096, 0))) =>
        /\ trap.route.dev = "plic"
        /\ trap.route.offset = Sub64(TrapAddr(trap), U4(0, 0, 3072, 0))

\* C6: a trap whose scause has bit 63 set is not fatal: the guest is re-entered.
C6_InterruptNotFatal ==
    (trap.taken /\ trap.scause[1] >= 32768) => (pc = "guest" /\ ~trap.panicked)

IsEcall(tr) == tr.taken /\ tr.scause = U(10)

SbiOkCalls == {<<0, 0>>, <<16, 0>>, <<16, 4>>, <<16, 5>>, <<16, 6>>, <<1, 0>>}

SbiErrCalls == {<<16, 3>>, <<2, 0>>}

\* (a7, a6) of the ecall recorded in tr, for ids below 2^16
CallOf(tr) == <<tr.x[17][4], tr.x[16][4]>>

\* C8: a recognised SBI call that succeeds leaves a0 = 0 and a1 = 0, one
\* that fails leaves a0 = -1 (64 bits) and a1 as it was; no other GPR
\* changes; an unrecognised call panics with the vCPU as trap_handler saved it.
C8_SbiResultConvention ==
    IsEcall(trap) =>
        /\ CallOf(trap) \in SbiOkCalls =>
               /\ vcpu.a0 = Zero64
               /\ vcpu.a1 = Zero64
               /\ SameGprsExcept(vcpu, trap.x, {10, 11})
        /\ CallOf(trap) \in SbiErrCalls =>
               /\ vcpu.a0 = AllOnes
               /\ vcpu.a1 = trap.x[11]
               /\ SameGprsExcept(vcpu, trap.x, {10})
        /\ CallOf(trap) \notin SbiOkCalls \cup SbiErrCalls =>
               /\ trap.panicked
               /\ SameGprsExcept(vcpu, trap.x, {})
        /\ (CallOf(trap) \in SbiOkCalls \cup SbiErrCalls
               /\ Lt64(trap.sepc, Add64(trap.sepc, U(4)))) => ~trap.panicked

C8_Witness ==
    /\ Resumed
    /\ IsEcall(trap)
    /\ CallOf(trap) = <<16, 3>>
    /\ vcpu.a0 = AllOnes
    /\ vcpu.a1 = U(7)


(***************************************************************************)
(* The console: a guest that only prints, checked under SpecConsole        *)
(***************************************************************************)
\* the bytes of the guest's lines and the newline, each also with bits set
\* above bit 7 of a0
PutcharArgs ==
    LET bytes == UNION {{l[i] : i \in 1..Len(l)} : l \in GuestLines} \cup {NewLine}
    IN  {U(b) : b \in bytes} \cup {U4(0, 0, 1, 256 + b) : b \in {72, NewLine}}

Putchars == {EcallExit(1, 0, a0, U(7), GUEST_BASE_ADDR) : a0 \in PutcharArgs}

Putchar == \E t \in Putchars : Trap(t)

NextConsole == MainRun \/ Putchar

SpecConsole == Init /\ [][NextConsole]_vars

\* the step is a putchar call the dispatcher handled, of byte b
PutcharStep(b) ==
    /\ IsEcall(trap')
    /\ CallOf(trap') = <<1, 0>>
    /\ ~trap'.panicked
    /\ b = trap'.x[10][4] % 256

NoNewLineIn(buffer) == \A i \in 1..Len(buffer) : buffer[i] # 10

\* C9 as stated: a host line is printed exactly at the putchar of '\n'; it is
\* "[guest] " followed by the bytes received since the previous newline; the
\* buffer is empty right after and never holds '\n'.
C9_LineIsBytesReceived ==
    [][\A b \in 0..255 : PutcharStep(b) =>
           /\ b = 10 => /\ trap'.log = <<Line("guest", GuestPrefix \o console)>>
                        /\ console' = <<>>
           /\ b # 10 => /\ trap'.log = <<>>
                        /\ console' = Append(console, b)
           /\ NoNewLineIn(console')]_vars

\* the texts of the guest that are well-formed UTF-8
Utf8Texts ==
    {<<>>, <<72>>, <<72, 101>>, <<72, 101, 108>>, <<72, 101, 108, 108>>,
     <<72, 101, 108, 108, 111>>, <<65>>, <<195, 169>>, <<195, 169, 33>>, <<104>>}

\* C9 amended: as C9, but the line is "[guest] " followed by the bytes
\* received when they are well-formed UTF-8, and "[guest] (not utf-8)" when
\* they are not.
C9_LineIsTextReceived ==
    [][\A b \in 0..255 : PutcharStep(b) =>
           /\ b = 10 => /\ trap'.log =
                               <<Line("guest",
                                      GuestPrefix \o (IF console \in Utf8Texts THEN console
                                                      ELSE NotUtf8Text))>>
                        /\ console' = <<>>
           /\ b # 10 => /\ trap'.log = <<>>
                        /\ console' = Append(console, b)
           /\ NoNewLineIn(console')]_vars

\* "Hello\n" has been printed as the one line "[guest] Hello"
C9_Witness ==
    /\ Resumed
    /\ trap.log = <<Line("guest", <<91, 103, 117, 101, 115, 116, 93, 32, 72, 101, 108, 108, 111>>)>>
    /\ console = <<>>

(***************************************************************************)
(* The PLIC by itself: its methods called directly, checked under SpecPlic *)
(***************************************************************************)
\* the largest IRQ number a device raises
MaxIrq == 4

\* priority, enable, the claim registers of contexts 0 and 1, the threshold
\* of context 1, the last claim register, the first offset past the PLIC
PlicOffsets ==
    {U(4), U(8192), U4(0, 0, 32, 4), U4(0, 0, 32, 4096), U4(0, 0, 32, 4100),
     U4(0, 0, 1023, 61444), U4(0, 0, 1024, 4)}

Call(name, offset, value, width, ret) ==
    [name |-> name, offset |-> offset, value |-> value, width |-> width, ret |-> ret]

PlicAdd ==
    \E k \in 0..MaxIrq :
        /\ irq_pending' = Plic_add_pending_irq(irq_pending, k)
        /\ op' = Call("add_pending_irq", Zero64, U(k), 0, Zero64)
        /\ UNCHANGED <<vcpu, hart, pc, blk, ram, console, overflow_checks, trap>>

PlicRead ==
    \E offset \in PlicOffsets, width \in {4, 8} :
        /\ op' = Call("handle_read", offset, Zero64, width,
                      Plic_handle_read(irq_pending, offset, width))
        /\ UNCHANGED <<vcpu, hart, pc, irq_pending, blk, ram, console, overflow_checks, trap>>

PlicWrite ==
    \E offset \in PlicOffsets, width \in {4, 8}, k \in 0..MaxIrq :
        /\ irq_pending' = Plic_handle_write(irq_pending, offset, U(k), width)
        /\ op' = Call("handle_write", offset, U(k), width, Zero64)
        /\ UNCHANGED <<vcpu, hart, pc, blk, ram, console, overflow_checks, trap>>

NextPlic == PlicAdd \/ PlicRead \/ PlicWrite

SpecPlic == Init /\ [][NextPlic]_vars

\* the call o is a 4-byte access to a context claim register
IsClaimAccess(o) ==
    /\ o.width = 4
    /\ InRange(o.offset, U4(0, 0, 32, 0), U4(0, 0, 1024, 0))
    /\ o.offset[4] % 4096 = 4

\* C10: for every IRQ number k (k = 0, the PLIC's "no interrupt", aside), with
\* k the only pending IRQ a 4-byte read of a claim register returns k, and a
\* 4-byte write of k to the claim register removes k from the pending set, so
\* that the next claim read returns 0.
C10_ClaimCompleteAnyIrq ==
    [][\A k \in 1..MaxIrq :
          /\ (op'.name = "handle_read" /\ IsClaimAccess(op') /\ irq_pending = {k})
                 => op'.ret = U(k)
          /\ (op'.name = "handle_write" /\ IsClaimAccess(op') /\ op'.value = U(k)
                 /\ irq_pending = {k})
                 => /\ k \notin irq_pending'
                    /\ Plic_handle_read(irq_pending', op'.offset, 4) = Zero64]_vars


(***************************************************************************)
(* The block device with a driver in the guest, checked under SpecBlk      *)
(***************************************************************************)
\* the number of requests the driver submits
MaxReq == 2

\* where the driver keeps the queue in guest RAM (offsets from GUEST_BASE_ADDR)
Layout ==
    [desc |-> 4096, avail |-> 8192, used |-> 12288, hdr |-> 16384, data |-> 20480,
     status |-> 24576]

GuestAt(off) == Add64(GUEST_BASE_ADDR, U(off))

\* the bytes of a VirtqDesc
Desc(addr, len, flags, next) ==
    Bytes64(addr) \o Bytes32(<<0, len>>) \o Bytes16(flags) \o Bytes16(next)

\* the bytes of a VirtioBlkReq
BlkReq(req_type, sector) == Bytes32(<<0, req_type>>) \o Bytes32(Zero32) \o Bytes64(sector)

\* the driver queues request n, a read of 8 bytes of sector n: a chain of
\* header, data and status descriptors, the status byte preset to 0xff, the
\* head in avail.ring[n], avail.idx = n + 1.  Stores to RAM do not trap.
GuestSubmit ==
    /\ pc = "guest"
    /\ LET n == Read16(ram, Layout.avail + 2)
           r1 == RamStore(ram, Layout.desc + 16 * (3 * n),
                          Desc(GuestAt(Layout.hdr + 16 * n), 16, 1, 3 * n + 1))
           r2 == RamStore(r1, Layout.desc + 16 * (3 * n + 1),
                          Desc(GuestAt(Layout.data + 8 * n), 8, 3, 3 * n + 2))
           r3 == RamStore(r2, Layout.desc + 16 * (3 * n + 2),
                          Desc(GuestAt(Layout.status + n), 1, 2, 0))
           r4 == RamStore(r3, Layout.hdr + 16 * n, BlkReq(VIRTIO_BLK_T_IN, U(n)))
           r5 == RamStore(r4, Layout.status + n, <<255>>)
           r6 == RamStore(r5, Layout.avail + 4 + 2 * n, Bytes16(3 * n))
       IN  /\ n < MaxReq
           /\ ram' = RamStore(r6, Layout.avail + 2, Bytes16(n + 1))
    /\ UNCHANGED <<vcpu, hart, irq_pending, blk, console, overflow_checks, trap, op, pc>>

\* sw a0, off(virtio) with a0 = value
BlkStoreExit(off, value) ==
    FaultExit(23, VirtioAt(off), StoreInst(10, 2, FALSE), U4(0, 0, 32768, 4098),
              (10 :> value))

\* QueueDescLow, QueueDriverLow, QueueDeviceLow, QueueReady, QueueNotify,
\* InterruptACK
BlkStores ==
    {BlkStoreExit(128, GuestAt(Layout.desc)), BlkStoreExit(144, GuestAt(Layout.avail)),
     BlkStoreExit(160, GuestAt(Layout.used)), BlkStoreExit(68, U(1)),
     BlkStoreExit(80, U(0)), BlkStoreExit(96, U(1))}

BlkStore == \E t \in BlkStores : Trap(t)

\* lw t0, claim(plic) and sw a0, claim(plic) with a0 = 1, context 1
PlicClaim == Trap(LoadExit(PlicAt(32, 4100), LoadInst(5, 2, FALSE)))

PlicComplete == Trap(StoreExit(PlicAt(32, 4100), StoreInst(10, 2, FALSE)))

NextBlk == MainRun \/ GuestSubmit \/ BlkStore \/ PlicClaim \/ PlicComplete

SpecBlk == Init /\ [][NextBlk]_vars

\* C7: whenever the guest runs after run() re-entered it with the PLIC's
\* pending set non-empty, a VS-level external interrupt (hvip.VSEIP, bit 10) is
\* pending for the guest.
C7_PendingIrqReachesGuest ==
    (pc = "guest" /\ irq_pending # {}) => Bits(hart.hvip, 10, 1) = 1


\* C11: a 4-byte read of a context claim register returns the lowest pending
\* IRQ, or 0 when none is pending; every other PLIC read returns 0; no read
\* changes the pending set.
C11_ClaimReadsLowestPending ==
    [][op'.name = "handle_read" =>
          /\ irq_pending' = irq_pending
          /\ IF IsClaimAccess(op')
             THEN \/ irq_pending = {} /\ op'.ret = Zero64
                  \/ \E k \in irq_pending :
                        /\ \A j \in irq_pending : k <= j
                        /\ op'.ret = U(k)
             ELSE op'.ret = Zero64]_vars

\* a claim read with IRQs 2 and 3 pending returned 2
C11_Witness ==
    /\ op.name = "handle_read"
    /\ IsClaimAccess(op)
    /\ irq_pending = {2, 3}
    /\ op.ret = U(2)


(***************************************************************************)
(* The virtqueue in use: a driver that has configured the queue and keeps  *)
(* submitting requests of several kinds, checked under SpecRing            *)
(***************************************************************************)
\* the number of requests the driver submits
MaxRing == 2

\* the values avail.idx and used.idx have when the driver starts submitting:
\* a queue that has served 16 requests, a queue about to wrap around the
\* 256-entry ring, a queue about to wrap the 16-bit indices
RingStarts == {16, 255, 65534}

\* slot s of the driver's request table: the header, the data buffer and the
\* status word of the request whose ring index is s modulo 4
HdrAt(s) == Layout.hdr + 16 * s

DataAt(s) == Layout.data + 16 * s

StatusAt(s) == Layout.status + 16 * s

\* the length of the driver's data buffers
DataLen == 8

\* the requests the driver makes: reads of sector 0 (all of the buffer), of
\* the last, partial sector, of a sector past the end of the disk, of sector
\* 2^55 (whose byte offset does not fit 64 bits), and a write
ReqKinds ==
    {[req_type |-> VIRTIO_BLK_T_IN, sector |-> U(0)],
     [req_type |-> VIRTIO_BLK_T_IN, sector |-> U(DiskLen \div 512)],
     [req_type |-> VIRTIO_BLK_T_IN, sector |-> U(DiskLen \div 512 + 1)],
     [req_type |-> VIRTIO_BLK_T_IN, sector |-> U4(128, 0, 0, 0)],
     [req_type |-> 1, sector |-> U(0)]}

AvailIdx(r) == Read16(r, Layout.avail + 2)

UsedIdx(r) == Read16(r, Layout.used + 2)

\* the state after the driver has set the queue addresses and QueueReady and
\* `start` requests have completed
InitRing ==
    /\ vcpu = [VCpu_new(GUEST_BASE_ADDR) EXCEPT !.a0 = U(0), !.a1 = GUEST_DTB_ADDR]
    /\ hart = [x |-> [i \in GprIdx |-> Zero64], pc |-> Zero64, priv |-> "HS",
               hstatus |-> Zero64, sstatus |-> Zero64, sscratch |-> Zero64,
               hgatp |-> Zero64, sepc |-> Zero64, hvip |-> Zero64]
    /\ pc = "main"
    /\ irq_pending = Plic_new
    /\ blk = [VirtioBlk_new EXCEPT !.queue_desc = GuestAt(Layout.desc),
                                   !.queue_avail = GuestAt(Layout.avail),
                                   !.queue_used = GuestAt(Layout.used),
                                   !.queue_ready = <<0, 1>>]
    /\ \E start \in RingStarts :
          ram = RamStore(RamStore(<<>>, Layout.avail + 2, Bytes16(start)),
                         Layout.used + 2, Bytes16(start))
    /\ console = <<>>
    /\ overflow_checks \in BOOLEAN
    /\ trap = NoTrap
    /\ op = NoOp

\* the number of requests the driver has submitted
Submitted(r) ==
    LET start == CHOOSE st \in RingStarts : (AvailIdx(r) - st) % Limb <= MaxRing
    IN  (AvailIdx(r) - start) % Limb

\* the driver queues a request of kind k at ring index avail.idx, in slot
\* avail.idx % 4 of its tables: descriptors 3s (header), 3s + 1 (data,
\* device-writable), 3s + 2 (status, device-writable); the data buffer preset to
\* 0xee and the status word to 0xff bytes.
RingSubmit ==
    /\ pc = "guest"
    /\ \E k \in ReqKinds :
          LET idx == AvailIdx(ram)
              s == idx % 4
              r1 == RamStore(ram, Layout.desc + 16 * (3 * s),
                             Desc(GuestAt(HdrAt(s)), 16, 1, 3 * s + 1))
              r2 == RamStore(r1, Layout.desc + 16 * (3 * s + 1),
                             Desc(GuestAt(DataAt(s)), DataLen, 3, 3 * s + 2))
              r3 == RamStore(r2, Layout.desc + 16 * (3 * s + 2),
                             Desc(GuestAt(StatusAt(s)), 1, 2, 0))
              r4 == RamStore(r3, HdrAt(s), BlkReq(k.req_type, k.sector))
              r5 == RamStore(r4, DataAt(s), [i \in 1..DataLen |-> 238])
              r6 == RamStore(r5, StatusAt(s), <<255, 255, 255, 255>>)
              r7 == RamStore(r6, Layout.avail + 4 + 2 * (idx % 256), Bytes16(3 * s))
          IN  /\ Submitted(ram) < MaxRing
              /\ ram' = RamStore(r7, Layout.avail + 2, Bytes16((idx + 1) % Limb))
    /\ UNCHANGED <<vcpu, hart, irq_pending, blk, console, overflow_checks, trap, op, pc>>

\* QueueNotify, InterruptACK
RingStores == {BlkStoreExit(80, U(0)), BlkStoreExit(96, U(1))}

RingStore == \E t \in RingStores : Trap(t)

NextRing == MainRun \/ RingSubmit \/ RingStore

SpecRing == InitRing /\ [][NextRing]_vars


\* the step is the device's handling of a store to QueueNotify
IsNotify(tr) == tr.taken /\ tr.scause = U(23) /\ TrapAddr(tr) = VirtioAt(80)

NotifyStep == pc = "guest" /\ IsNotify(trap') /\ AvailIdx(ram') = AvailIdx(ram)

\* the number of available entries the device has not used, and the ring index
\* of the j-th of them
Pending(r) == (AvailIdx(r) - UsedIdx(r)) % Limb

RingIdx(r, j) == (UsedIdx(r) + j) % Limb

HeadAt(r, i) == Read16(r, Layout.avail + 4 + 2 * (i % 256))

ReqTypeOf(r, i) == Read32(r, HdrAt(i % 4))

SectorOf(r, i) == Read64(r, HdrAt(i % 4) + 8)

UsedElem(r, i) ==
    [id |-> Read32(r, Layout.used + 4 + 8 * (i % 256)),
     len |-> Read32(r, Layout.used + 8 + 8 * (i % 256))]

\* every pending entry is a read of a sector whose byte offset fits 64 bits
PendingAreReads(r) ==
    \A j \in 0..(Pending(r) - 1) :
        /\ ReqTypeOf(r, RingIdx(r, j)) = <<0, VIRTIO_BLK_T_IN>>
        /\ SectorOf(r, RingIdx(r, j))[1] < 128

\* C12: with queue_ready # 0 and every available entry heading a well-formed
\* read chain, a queue notify leaves used.idx = avail.idx and has written, in
\* order, the chain heads of avail.ring[used.idx(old) .. avail.idx) to the used
\* ring, for every value of the 16-bit indices, wrapped ones included.
C12_UsedRingComplete ==
    [][(NotifyStep /\ blk.queue_ready # Zero32 /\ PendingAreReads(ram)) =>
          /\ ~trap'.panicked
          /\ UsedIdx(ram') = AvailIdx(ram)
          /\ \A j \in 0..(Pending(ram) - 1) :
                UsedElem(ram', RingIdx(ram, j)).id = <<0, HeadAt(ram, RingIdx(ram, j))>>]_vars


\* the number of requests the step has added to the used ring
Served == (UsedIdx(ram') - UsedIdx(ram)) % Limb

\* min(data_len, disk_len - s * 512), 0 when s * 512 >= disk_len, in the
\* integers
CopyLen(sector) ==
    IF sector[1] = 0 /\ sector[2] = 0 /\ sector[3] = 0 /\ sector[4] * 512 < DiskLen
    THEN (IF DataLen < DiskLen - sector[4] * 512 THEN DataLen
          ELSE DiskLen - sector[4] * 512)
    ELSE 0

\* C13: for every request a notify has served, with sector s, the first
\* n = min(data_len, disk_len - s * 512) bytes of the data buffer (none when
\* s * 512 >= disk_len) are the disk's bytes from offset s * 512, the rest of
\* the buffer is as it was, and the used element's len is n, s * 512 being the
\* product in the integers.
C13_DataCopiedFromSector ==
    [][NotifyStep =>
          \A j \in 0..(Pending(ram) - 1) :
              j < Served =>
                  LET i == RingIdx(ram, j)
                      sector == SectorOf(ram, i)
                      n == CopyLen(sector)
                  IN  /\ \A k \in 0..(DataLen - 1) :
                            RamByte(ram', DataAt(i % 4) + k) =
                                IF k < n THEN DiskByte(sector[4] * 512 + k)
                                ELSE RamByte(ram, DataAt(i % 4) + k)
                      /\ UsedElem(ram', i).len = <<0, n>>]_vars


IrqBit(b) == b.irq_status[2] % 2 = 1

\* the j-th request pending before the step is complete after it: its data
\* (when any was due) and status are written and its used element is in place
Published(j) ==
    LET i == RingIdx(ram, j)
        e == UsedElem(ram', i)
    IN  /\ e.id = <<0, HeadAt(ram, i)>>
        /\ RamByte(ram', StatusAt(i % 4)) = 0
        /\ e.len # Zero32 => RamByte(ram', DataAt(i % 4)) # RamByte(ram, DataAt(i % 4))

FirstRejected(r, j) ==
    /\ j < Pending(r)
    /\ ReqTypeOf(r, RingIdx(r, j)) # <<0, VIRTIO_BLK_T_IN>>
    /\ \A h \in 0..(j - 1) :
          /\ ReqTypeOf(r, RingIdx(r, h)) = <<0, VIRTIO_BLK_T_IN>>
          /\ SectorOf(r, RingIdx(r, h))[1] < 128

SameBytes(r1, r2, off, n) == \A k \in 0..(n - 1) : RamByte(r1, off + k) = RamByte(r2, off + k)

\* C15: a notify that meets a request whose req_type is not VIRTIO_BLK_T_IN
\* panics; for that request no data byte and no status byte is written, no
\* used element is appended, used.idx does not count it and no interrupt is
\* raised.
C15_NonReadRejected ==
    [][\A j \in 0..(MaxRing - 1) :
          (NotifyStep /\ blk.queue_ready # Zero32 /\ FirstRejected(ram, j)) =>
              LET i == RingIdx(ram, j)
              IN  /\ trap'.panicked
                  /\ pc' = "panic"
                  /\ Served = j
                  /\ SameBytes(ram', ram, DataAt(i % 4), DataLen)
                  /\ SameBytes(ram', ram, StatusAt(i % 4), 4)
                  /\ SameBytes(ram', ram, Layout.used + 4 + 8 * (i % 256), 8)
                  /\ j = 0 => (blk' = blk /\ irq_pending' = irq_pending /\ ram' = ram)]_vars

\* the part of C15 that holds: the same, for a queue whose avail.idx has not
\* wrapped past used.idx
C15_NonReadRejectedBeforeWrap ==
    [][\A j \in 0..(MaxRing - 1) :
          (NotifyStep /\ blk.queue_ready # Zero32 /\ FirstRejected(ram, j)
              /\ UsedIdx(ram) <= AvailIdx(ram)) =>
              LET i == RingIdx(ram, j)
              IN  /\ trap'.panicked
                  /\ pc' = "panic"
                  /\ Served = j
                  /\ SameBytes(ram', ram, DataAt(i % 4), DataLen)
                  /\ SameBytes(ram', ram, StatusAt(i % 4), 4)
                  /\ SameBytes(ram', ram, Layout.used + 4 + 8 * (i % 256), 8)
                  /\ j = 0 => (blk' = blk /\ irq_pending' = irq_pending /\ ram' = ram)]_vars

\* the device has met a write request behind a read it served
C15_Witness ==
    /\ pc = "panic"
    /\ IsNotify(trap)
    /\ ReqTypeOf(ram, 17) = <<0, 1>>
    /\ UsedIdx(ram) = 17
    /\ AvailIdx(ram) = 18
    /\ RamByte(ram, StatusAt(1)) = 255
    /\ RamByte(ram, DataAt(1)) = 238


\* the width of the access of an uncompressed load or store, by its funct3
\* (lb/lbu/sb 1, lh/lhu/sh 2, lw/lwu/sw 4, ld/sd 8); 0 for any other htinst
WidthOf(tr) ==
    LET opcode == tr.htinst[4] % 128
        funct3 == (tr.htinst[4] \div 4096) % 8
    IN  IF opcode \notin {3, 35} THEN 0
        ELSE IF funct3 \in {0, 4} THEN 1
        ELSE IF funct3 \in {1, 5} THEN 2
        ELSE IF funct3 \in {2, 6} THEN 4
        ELSE IF funct3 = 3 THEN 8
        ELSE 0

\* the fault is an access to the 4 KiB VirtIO-MMIO window
IsVirtioAccess(tr) ==
    /\ IsFault(tr)
    /\ InRange(TrapAddr(tr), U4(0, 0, 2560, 0), U4(0, 0, 2560, 4096))

\* C16: a guest load or store of width 1, 2 or 8 to a VirtIO register panics,
\* returns no value to the guest and leaves the device as it was.
C16_VirtioWidthFatal ==
    [][(IsVirtioAccess(trap') /\ WidthOf(trap') \in {1, 2, 8}) =>
          /\ trap'.panicked
          /\ pc' = "panic"
          /\ SameGprsExcept(vcpu', trap'.x, {})
          /\ blk' = blk]_vars

\* the part of C16 that holds: the same for stores
C16_VirtioStoreWidthFatal ==
    [][(IsVirtioAccess(trap') /\ WidthOf(trap') \in {1, 2, 8} /\ trap'.scause = U(23)) =>
          /\ trap'.panicked
          /\ pc' = "panic"
          /\ SameGprsExcept(vcpu', trap'.x, {})
          /\ blk' = blk]_vars


(***************************************************************************)
(* The guest memory region by itself (guest_memory.rs): write_bytes and    *)
(* read_bytes of GUEST_MEMORY called directly, checked under SpecMem.      *)
(* `ram` maps an offset from the start of `data` to the byte there; offsets *)
(* below 0 and from SIZE on are host memory around `data`.                  *)
(***************************************************************************)
\* SIZE of GUEST_MEMORY, as a natural
RegionSize == MEMORY_SIZE[3] * Limb + MEMORY_SIZE[4]

\* guest_addr - guest_base as the pointer offset `raw_ptr.add(offset as usize)`
\* moves by: the difference, negative when the u64 subtraction wrapped (for
\* addresses within 2^31 of the base)
PtrOffset(guest_addr, guest_base) ==
    (guest_addr[3] - guest_base[3]) * Limb + (guest_addr[4] - guest_base[4])

\* the result of a call: the memory after it, whether it panicked, and the
\* bytes it read
MemResult(r, panicked, bytes) == [ram |-> r, panicked |-> panicked, bytes |-> bytes]

\* the range off .. off + len - 1 lies in `data`
InData(off, len) == off >= 0 /\ off + len <= RegionSize

\* GuestMemory::write_bytes: the subtraction (a panic when it overflows in a
\* build that checks), then a slice made from a raw pointer with no check
\* against SIZE.  A slice outside `data` is undefined behaviour: the bytes land
\* in the host memory there, or the access faults.
write_bytes(r, checked, guest_addr, src) ==
    LET off == PtrOffset(guest_addr, GUEST_BASE_ADDR)
    IN  IF checked /\ Lt64(guest_addr, GUEST_BASE_ADDR) THEN {MemResult(r, TRUE, <<>>)}
        ELSE IF InData(off, Len(src)) THEN {MemResult(RamStore(r, off, src), FALSE, <<>>)}
        ELSE {MemResult(RamStore(r, off, src), FALSE, <<>>), MemResult(r, TRUE, <<>>)}

\* GuestMemory::read_bytes, likewise
read_bytes(r, checked, guest_addr, len) ==
    LET off == PtrOffset(guest_addr, GUEST_BASE_ADDR)
        bytes == [k \in 1..len |-> RamByte(r, off + k - 1)]
    IN  IF checked /\ Lt64(guest_addr, GUEST_BASE_ADDR) THEN {MemResult(r, TRUE, <<>>)}
        ELSE IF InData(off, len) THEN {MemResult(r, FALSE, bytes)}
        ELSE {MemResult(r, FALSE, bytes), MemResult(r, TRUE, <<>>)}

\* the addresses of the calls: the base, inside the region, the last four
\* bytes, the last two bytes, the first byte past the end, the byte before the
\* base
MemAddrs ==
    {GUEST_BASE_ADDR, GuestAt(8), U4(0, 0, 32768 + 1023, 65532), U4(0, 0, 32768 + 1023, 65534),
     U4(0, 0, 32768 + 1024, 0), U4(0, 0, 32767, 65535)}

MemSrcs == {<<1, 2>>, <<3, 4, 5, 6>>}

\* no call so far has written outside `data`
HostIntact(r) == \A o \in DOMAIN r : o >= 0 /\ o < RegionSize

\* calls are followed up to the first that damages host memory
MemWrite ==
    /\ pc = "main"
    /\ HostIntact(ram)
    /\ \E guest_addr \in MemAddrs, src \in MemSrcs :
          \E res \in write_bytes(ram, overflow_checks, guest_addr, src) :
              /\ ram' = res.ram
              /\ pc' = IF res.panicked THEN "panic" ELSE "main"
              /\ op' = Call("write_bytes", guest_addr, src, Len(src), res.bytes)
    /\ UNCHANGED <<vcpu, hart, irq_pending, blk, console, overflow_checks, trap>>

MemRead ==
    /\ pc = "main"
    /\ HostIntact(ram)
    /\ \E guest_addr \in MemAddrs, len \in {2, 4} :
          \E res \in read_bytes(ram, overflow_checks, guest_addr, len) :
              /\ pc' = IF res.panicked THEN "panic" ELSE "main"
              /\ op' = Call("read_bytes", guest_addr, <<>>, len, res.bytes)
    /\ UNCHANGED <<vcpu, hart, irq_pending, blk, ram, console, overflow_checks, trap>>

NextMem == MemWrite \/ MemRead

SpecMem == Init /\ [][NextMem]_vars

\* the call o asks for a range with a byte outside [base, base + SIZE)
OutOfRegion(o) ==
    \/ Lt64(o.offset, GUEST_BASE_ADDR)
    \/ Lt64(Add64(GUEST_BASE_ADDR, MEMORY_SIZE), Add64(o.offset, U(o.width)))

\* C17: a write_bytes or read_bytes whose range is not wholly inside
\* [base, base + SIZE) panics and changes no memory, so no byte outside the
\* region is ever written.
C17_RegionBoundsChecked ==
    [][/\ OutOfRegion(op') => (pc' = "panic" /\ ram' = ram)
       /\ HostIntact(ram')]_vars


(***************************************************************************)
(* The loader (linux_loader.rs, GuestMemory::write_and_map), checked under *)
(* SpecLoad.  The loader's state is the G-stage table, the blocks          *)
(* alloc_pages has handed out and whether it panicked; it is kept in       *)
(* op.ret, the result of the last call.                                    *)
(***************************************************************************)
PageSize == 4096

\* size_of::<RiscvImageHeader>() and the offset of magic2 in it
HeaderSize == 64

Magic2Offset == 56

\* 0x05435352 as the u32 <<high half, low half>>
Magic2 == <<1347, 21330>>

\* the page number of a guest-physical address below 2^32
GuestPage(addr) == addr[3] * (Limb \div PageSize) + addr[4] \div PageSize

\* mutant of StepCount: a last, partial page is not counted
StepCount_RoundDown(len) == len \div PageSize

\* how many values `(0..len).step_by(4096)` yields
StepCount(len) == (len + PageSize - 1) \div PageSize

\* GuestPageTable::new(): no page mapped.  The table is kept as the runs of
\* pages the loader's loops have mapped: run [first, n, block, flags] maps guest
\* page first + k onto page k of a host block, for each k < n, with the flags;
\* block 0 is GUEST_MEMORY.data and block b > 0 the b-th block alloc_pages
\* returned.
NewLoad == [table |-> {}, blocks |-> <<>>, panicked |-> FALSE]

\* the table maps guest page q
Mapped(table, q) == \E rn \in table : q >= rn.first /\ q < rn.first + rn.n

\* what the table maps guest page q to
Walk(table, q) ==
    LET rn == CHOOSE r \in table : q >= r.first /\ q < r.first + r.n
    IN  [block |-> rn.block, page |-> q - rn.first, flags |-> rn.flags]

\* the loop `for off in (0..len).step_by(4096) { table.map(guest_addr + off,
\* host + off, flags) }` with n iterations; mapping a page twice or at an
\* address that is not page-aligned faults
MapPages(st, guest_addr, n, block, flags) ==
    LET first == GuestPage(guest_addr)
    IN  IF n = 0 THEN st
        ELSE IF guest_addr[4] % PageSize # 0
                \/ \E rn \in st.table : first < rn.first + rn.n /\ rn.first < first + n
        THEN [st EXCEPT !.panicked = TRUE]
        ELSE [st EXCEPT !.table = @ \cup {[first |-> first, n |-> n, block |-> block,
                                           flags |-> flags]}]

\* alloc_pages(len): a fresh block of zeroed host pages
alloc_pages(len) == <<>>

\* copy_and_map
copy_and_map(st, data, guest_addr, len, flags) ==
    IF Len(data) > len THEN [st EXCEPT !.panicked = TRUE]
    ELSE LET raw == RamStore(alloc_pages(len), 0, data)
             st1 == [st EXCEPT !.blocks = Append(@, raw)]
         IN  MapPages(st1, guest_addr, StepCount(len), Len(st1.blocks), flags)

\* the blob build_device_tree returns: its length and its bytes
DtbLen == 6

Dtb == [k \in 1..DtbLen |-> 208 + (k % 8)]

\* the u32 at byte offset off of an image (little-endian)
ImageU32(image, off) ==
    <<image[off + 3] + 256 * image[off + 4], image[off + 1] + 256 * image[off + 2]>>

\* load_linux_kernel from the magic2 assertion on
LoadValidated(st, image) ==
    IF ImageU32(image, Magic2Offset) # Magic2 THEN [st EXCEPT !.panicked = TRUE]
    ELSE IF Len(image) > RegionSize THEN [st EXCEPT !.panicked = TRUE]
    ELSE LET st1 == copy_and_map(st, image, GUEST_BASE_ADDR, RegionSize, {"R", "W", "X"})
         IN  IF st1.panicked THEN st1
             ELSE IF DtbLen > 16 * PageSize THEN [st1 EXCEPT !.panicked = TRUE]
             ELSE copy_and_map(st1, Dtb, GUEST_DTB_ADDR, DtbLen, {"R"})

\* load_linux_kernel: the states it can end in. `aligned` says whether the
\* image starts at a multiple of 8, the alignment of RiscvImageHeader. The
\* slice is only byte-aligned, so `&*(image.as_ptr() as *const
\* RiscvImageHeader)` on an image that is not aligned is undefined: a build
\* with debug assertions panics at the dereference, another build reads the
\* header.
load_linux_kernel(st, image, aligned) ==
    IF Len(image) < HeaderSize THEN {[st EXCEPT !.panicked = TRUE]}
    ELSE {LoadValidated(st, image)}
         \cup (IF aligned THEN {} ELSE {[st EXCEPT !.panicked = TRUE]})

\* GuestMemory::write_and_map of GUEST_MEMORY: write_bytes at the base, then
\* every page of the region mapped onto `data`
write_and_map(st, r, checked, src, flags) ==
    {IF w.panicked THEN [load |-> [st EXCEPT !.panicked = TRUE], ram |-> w.ram]
     ELSE [load |-> MapPages(st, GUEST_BASE_ADDR, StepCount(RegionSize), 0, flags),
           ram |-> w.ram] :
        w \in write_bytes(r, checked, GUEST_BASE_ADDR, src)}


\* loader calls are followed until this many blocks have been allocated
MaxBlocks == 1

\* kernel images: n bytes, the four bytes of magic2 as given
Image(n, magic) ==
    [k \in 1..n |-> IF k > Magic2Offset /\ k <= Magic2Offset + 4 THEN magic[k - Magic2Offset]
                    ELSE 1 + (k % 250)]

\* 0x05435352 in memory, the same with one bit changed, the same byte-swapped
Magics == {<<82, 83, 67, 5>>, <<82, 83, 67, 4>>, <<5, 67, 83, 82>>}

\* an empty image, images one byte short of the header, bare headers, a 1 KiB
\* kernel
Images ==
    {Image(n, magic) : n \in {HeaderSize - 1, HeaderSize}, magic \in Magics}
    \cup {<<>>, Image(1024, <<82, 83, 67, 5>>)}

LoaderCalls == {"load_linux_kernel", "copy_and_map", "write_and_map"}

\* a call of the loader: its name, guest address, source, length and flags, and
\* the loader's state after it
LoaderCall(name, guest_addr, data, len, flags, st) ==
    [name |-> name, offset |-> guest_addr, value |-> data, width |-> len, ret |-> st,
     flags |-> flags]

\* the loader's state after the calls so far
Loaded(o) == IF o.name \in LoaderCalls THEN o.ret ELSE NewLoad

LoadKernel ==
    /\ pc = "main"
    /\ Len(Loaded(op).blocks) < MaxBlocks
    /\ \E image \in Images, aligned \in BOOLEAN :
          \E st \in load_linux_kernel(Loaded(op), image, aligned) :
              /\ op' = ("aligned" :> aligned)
                           @@ LoaderCall("load_linux_kernel", GUEST_BASE_ADDR, image,
                                         Len(image), {"R", "W", "X"}, st)
              /\ pc' = IF st.panicked THEN "panic" ELSE "main"
    /\ UNCHANGED <<vcpu, hart, irq_pending, blk, ram, console, overflow_checks, trap>>

CopyAndMap ==
    /\ pc = "main"
    /\ Len(Loaded(op).blocks) < MaxBlocks
    /\ \E data \in {<<>>, <<7, 8, 9>>}, guest_addr \in {GUEST_DTB_ADDR, GUEST_BASE_ADDR},
          len \in {0, PageSize, PageSize + 904, 16 * PageSize}, flags \in {{"R"}, {"R", "W", "X"}} :
          LET st == copy_and_map(Loaded(op), data, guest_addr, len, flags)
          IN  /\ op' = LoaderCall("copy_and_map", guest_addr, data, len, flags, st)
              /\ pc' = IF st.panicked THEN "panic" ELSE "main"
    /\ UNCHANGED <<vcpu, hart, irq_pending, blk, ram, console, overflow_checks, trap>>

WriteAndMap ==
    /\ pc = "main"
    /\ Len(Loaded(op).blocks) < MaxBlocks
    /\ \E src \in {<<>>, <<7, 8, 9>>, Image(1024, <<82, 83, 67, 5>>)}, flags \in {{"R"}, {"R", "W", "X"}} :
          \E res \in write_and_map(Loaded(op), ram, overflow_checks, src, flags) :
              /\ op' = LoaderCall("write_and_map", GUEST_BASE_ADDR, src, RegionSize, flags,
                                res.load)
              /\ ram' = res.ram
              /\ pc' = IF res.load.panicked THEN "panic" ELSE "main"
    /\ UNCHANGED <<vcpu, hart, irq_pending, blk, console, overflow_checks, trap>>

NextLoad == LoadKernel \/ CopyAndMap \/ WriteAndMap

SpecLoad == Init /\ [][NextLoad]_vars


\* the number of 4 KiB pages that hold the bytes [0, size)
PagesOf(size) == IF size % 4096 = 0 THEN size \div 4096 ELSE size \div 4096 + 1

\* every page of the region of `size` bytes at guest_addr is mapped, with the
\* flags, onto the page at the same offset of host block `block`
RegionMapped(table, guest_addr, size, block, flags) ==
    \/ size = 0
    \/ /\ \A k \in {0, 1, PagesOf(size) - 1} :
              k < PagesOf(size) =>
                  /\ Mapped(table, GuestPage(guest_addr) + k)
                  /\ Walk(table, GuestPage(guest_addr) + k)
                         = [block |-> block, page |-> k, flags |-> flags]
       /\ \E rn \in table :
              /\ rn.first = GuestPage(guest_addr)
              /\ rn.n >= PagesOf(size)
              /\ rn.block = block
              /\ rn.flags = flags

\* the backing store holds src in its first bytes and zero after them
HoldsSource(store, src) ==
    /\ \A i \in 1..Len(src) : RamByte(store, i - 1) = src[i]
    /\ \A o \in DOMAIN store : o < Len(src)

ValidHeader(image) ==
    /\ Len(image) >= 64
    /\ <<image[57], image[58], image[59], image[60]>> = <<82, 83, 67, 5>>

\* C19: load_linux_kernel, called with a fresh table, succeeds for an image
\* whose magic2 is 0x05435352 and that is at least 64 bytes long; for any other
\* magic2, or an image shorter than the header, it panics with no guest memory
\* written and no mapping installed.
C19_HeaderValidated ==
    [][op'.name = "load_linux_kernel" =>
          /\ (ValidHeader(op'.value) /\ Loaded(op).table = {}) => ~op'.ret.panicked
          /\ ~ValidHeader(op'.value) =>
                 /\ op'.ret.panicked
                 /\ op'.ret.table = Loaded(op).table
                 /\ op'.ret.blocks = Loaded(op).blocks
                 /\ ram' = ram]_vars

\* C19 for images that start at a multiple of 8
C19_AlignedHeaderValidated ==
    [][(op'.name = "load_linux_kernel" /\ op'.aligned) =>
          /\ (ValidHeader(op'.value) /\ Loaded(op).table = {}) => ~op'.ret.panicked
          /\ ~ValidHeader(op'.value) =>
                 /\ op'.ret.panicked
                 /\ op'.ret.table = Loaded(op).table
                 /\ op'.ret.blocks = Loaded(op).blocks
                 /\ ram' = ram]_vars

\* a bare 64-byte header with the right magic2 has been loaded: RAM and the
\* device tree are mapped
C19_Witness ==
    /\ op.name = "load_linux_kernel"
    /\ Len(op.value) = 64
    /\ ValidHeader(op.value)
    /\ ~op.ret.panicked
    /\ Mapped(op.ret.table, GuestPage(GUEST_BASE_ADDR))
    /\ Mapped(op.ret.table, GuestPage(GUEST_DTB_ADDR))

\* a 64-byte image whose magic2 differs in one bit has been rejected
C19_WitnessRejected ==
    /\ op.name = "load_linux_kernel"
    /\ Len(op.value) = 64
    /\ <<op.value[57], op.value[58], op.value[59], op.value[60]>> = <<82, 83, 67, 4>>
    /\ op.ret.panicked
    /\ pc = "panic"


\* the fault address lies in the PLIC window [0x0c00_0000, 0x0c40_0000), in
\* the VirtIO window [0x0a00_0000, 0x0a00_1000) or in the 64 MiB of guest RAM
\* at 0x8000_0000
KnownAddress(a) ==
    \/ InRange(a, U4(0, 0, 3072, 0), U4(0, 0, 3136, 0))
    \/ InRange(a, U4(0, 0, 2560, 0), U4(0, 0, 2560, 4096))
    \/ InRange(a, U4(0, 0, 32768, 0), U4(0, 0, 33792, 0))

\* C20: a load or store guest-page fault at an address outside the PLIC
\* window, the VirtIO window and guest RAM panics; the guest is not resumed.
C20_UnknownAddressFatal ==
    [][(IsFault(trap') /\ ~KnownAddress(TrapAddr(trap'))) =>
          (trap'.panicked /\ pc' = "panic")]_vars

\* such a fault has been handled: logged, and the guest resumed past the
\* instruction
C20_Resumed ==
    /\ IsFault(trap)
    /\ ~KnownAddress(TrapAddr(trap))
    /\ trap.route.dev = "log"
    /\ ~trap.panicked
    /\ pc # "panic"
    /\ vcpu.sepc # trap.sepc


\* guest-physical addresses in guest RAM: the base, the byte after it, the
\* second page, the last byte
RamSamples == {GUEST_BASE_ADDR, GuestAt(1), GuestAt(4096), GuestAt(RegionSize - 1)}

\* the host location the G-stage table gives guest address g: the block and
\* the byte offset in it
GuestHost(table, g) ==
    LET w == Walk(table, GuestPage(g))
    IN  [block |-> w.block, off |-> w.page * PageSize + (g[4] % PageSize)]

\* the host location the device dereferences for g: GUEST_MEMORY.data (block
\* 0) at resolve_guest_addr(g)
DeviceHost(g) == [block |-> 0, off |-> resolve_guest_addr(g)]

\* the byte at a host location
HostByte(st, r, h) ==
    IF h.block = 0 THEN RamByte(r, h.off) ELSE RamByte(st.blocks[h.block], h.off)

\* for every sampled address of guest RAM, the table maps it to the location
\* the device dereferences, and both read the same byte
SharedRam(st, r) ==
    \A g \in RamSamples :
        /\ Mapped(st.table, GuestPage(g))
        /\ GuestHost(st.table, g) = DeviceHost(g)
        /\ HostByte(st, r, GuestHost(st.table, g)) = HostByte(st, r, DeviceHost(g))

\* C21: for every guest-physical address g of guest RAM, the host location
\* the VirtIO back-end dereferences for g is the one to which the table built
\* by load_linux_kernel maps g, and guest and device read the same byte there.
C21_DeviceSharesGuestRam ==
    (op.name = "load_linux_kernel" /\ ~op.ret.panicked) => SharedRam(op.ret, ram)

\* the same for a table built by GuestMemory::write_and_map
C21_WriteAndMapShares ==
    (op.name = "write_and_map" /\ ~op.ret.panicked) => SharedRam(op.ret, ram)

\* the kernel is loaded: the guest reads the first image byte at 0x8000_0000
\* and the device reads 0 there
C21_Split ==
    /\ op.name = "load_linux_kernel"
    /\ ~op.ret.panicked
    /\ HostByte(op.ret, ram, GuestHost(op.ret.table, GUEST_BASE_ADDR)) = op.value[1]
    /\ op.value[1] # 0
    /\ HostByte(op.ret, ram, DeviceHost(GUEST_BASE_ADDR)) = 0


(***************************************************************************)
(* A driver that negotiates the queue size (register 0x38) and indexes the *)
(* rings modulo it                                                         *)
(***************************************************************************)
\* the queue sizes the driver writes to QueueNum
QueueSizes == {8, 256}

\* avail.idx and used.idx when the driver starts submitting: a fresh queue, a
\* queue about to wrap a ring of 8, a queue that has served 16 requests
QueueStarts == {0, 7, 16}

\* the requests this driver makes: reads of sector 0 and of the last, partial
\* sector
QueueKinds ==
    {[req_type |-> VIRTIO_BLK_T_IN, sector |-> U(0)],
     [req_type |-> VIRTIO_BLK_T_IN, sector |-> U(DiskLen \div 512)]}

\* the queue addresses set and QueueReady written, QueueNum not yet
InitQueue ==
    /\ vcpu = [VCpu_new(GUEST_BASE_ADDR) EXCEPT !.a0 = U(0), !.a1 = GUEST_DTB_ADDR]
    /\ hart = [x |-> [i \in GprIdx |-> Zero64], pc |-> Zero64, priv |-> "HS",
               hstatus |-> Zero64, sstatus |-> Zero64, sscratch |-> Zero64,
               hgatp |-> Zero64, sepc |-> Zero64, hvip |-> Zero64]
    /\ pc = "main"
    /\ irq_pending = Plic_new
    /\ blk = [VirtioBlk_new EXCEPT !.queue_desc = GuestAt(Layout.desc),
                                   !.queue_avail = GuestAt(Layout.avail),
                                   !.queue_used = GuestAt(Layout.used),
                                   !.queue_ready = <<0, 1>>]
    /\ \E start \in QueueStarts :
          ram = RamStore(RamStore(<<>>, Layout.avail + 2, Bytes16(start)),
                         Layout.used + 2, Bytes16(start))
    /\ console = <<>>
    /\ overflow_checks \in BOOLEAN
    /\ trap = NoTrap
    /\ op = NoOp

\* the queue size the device holds
QueueNum(b) == b.queue_num[2]

\* the number of requests this driver has submitted
QueueSubmitted(r) ==
    LET start == CHOOSE st \in QueueStarts : AvailIdx(r) - st \in 0..MaxRing
    IN  AvailIdx(r) - start

\* the driver writes the queue size, once
QueueNumStore ==
    /\ QueueNum(blk) = 0
    /\ \E q \in QueueSizes : Trap(BlkStoreExit(56, U(q)))

\* the driver queues a request of kind k as RingSubmit does, its head in
\* avail.ring[avail.idx % queue size]
QueueSubmit ==
    /\ pc = "guest"
    /\ QueueNum(blk) \in QueueSizes
    /\ \E k \in QueueKinds :
          LET idx == AvailIdx(ram)
              s == idx % 4
              r1 == RamStore(ram, Layout.desc + 16 * (3 * s),
                             Desc(GuestAt(HdrAt(s)), 16, 1, 3 * s + 1))
              r2 == RamStore(r1, Layout.desc + 16 * (3 * s + 1),
                             Desc(GuestAt(DataAt(s)), DataLen, 3, 3 * s + 2))
              r3 == RamStore(r2, Layout.desc + 16 * (3 * s + 2),
                             Desc(GuestAt(StatusAt(s)), 1, 2, 0))
              r4 == RamStore(r3, HdrAt(s), BlkReq(k.req_type, k.sector))
              r5 == RamStore(r4, DataAt(s), [i \in 1..DataLen |-> 238])
              r6 == RamStore(r5, StatusAt(s), <<255, 255, 255, 255>>)
              r7 == RamStore(r6, Layout.avail + 4 + 2 * (idx % QueueNum(blk)),
                             Bytes16(3 * s))
          IN  /\ QueueSubmitted(ram) < MaxRing
              /\ ram' = RamStore(r7, Layout.avail + 2, Bytes16((idx + 1) % Limb))
    /\ UNCHANGED <<vcpu, hart, irq_pending, blk, console, overflow_checks, trap, op, pc>>

\* QueueNotify
QueueNotify == Trap(BlkStoreExit(80, U(0)))

NextQueue == MainRun \/ QueueNumStore \/ QueueSubmit \/ QueueNotify

SpecQueue == InitQueue /\ [][NextQueue]_vars

\* the head the driver put in the avail ring for ring index i, and the used
\* element for ring index i, in rings of q entries
HeadAtQ(r, i, q) == Read16(r, Layout.avail + 4 + 2 * (i % q))

UsedElemQ(r, i, q) ==
    [id |-> Read32(r, Layout.used + 4 + 8 * (i % q)),
     len |-> Read32(r, Layout.used + 8 + 8 * (i % q))]

\* what C22 says of a notify with queue size q
IndexedModulo(q) ==
    /\ ~trap'.panicked
    /\ UsedIdx(ram') = AvailIdx(ram)
    /\ \A j \in 0..(Pending(ram) - 1) :
          UsedElemQ(ram', RingIdx(ram, j), q).id = <<0, HeadAtQ(ram, RingIdx(ram, j), q)>>
    /\ \A slot \in q..255 : SameBytes(ram', ram, Layout.used + 4 + 8 * slot, 8)

\* C22: for every queue size Q written to register 0x38, a notify takes the
\* head of each pending entry i from avail.ring[i % Q] and appends its used
\* element at used.ring[used.idx % Q]; no used-ring slot with index >= Q is
\* written.
C22_RingIndexedModuloQueueSize ==
    [][(NotifyStep /\ QueueNum(blk) \in QueueSizes) => IndexedModulo(QueueNum(blk))]_vars

\* C22 for the queue size 256
C22_RingIndexedModulo256 ==
    [][(NotifyStep /\ QueueNum(blk) = 256) => IndexedModulo(256)]_vars

\* queue size 8, one read submitted at ring index 16 and notified: the used
\* element is in slot 16 of the used ring and slot 16 % 8 = 0 is empty
C22_SlotBeyondQueue ==
    /\ IsNotify(trap)
    /\ QueueNum(blk) = 8
    /\ AvailIdx(ram) = 17
    /\ UsedIdx(ram) = 17
    /\ UsedElem(ram, 16).len # <<0, 0>>
    /\ ~SameBytes(ram, <<>>, Layout.used + 4 + 8 * 16, 8)
    /\ SameBytes(ram, <<>>, Layout.used + 4, 8)


\* C23: in every reachable state of the VirtIO device queue_sel is 0; a write
\* of a non-zero value to register 0x30 does not change that.
C23_QueueSelAlwaysZero == blk.queue_sel = Zero32

\* a store of a non-zero value to register 0x30 has been handled without a
\* panic and the guest runs on with queue_sel holding the value
C23_QueueSelWritten ==
    /\ IsFault(trap)
    /\ trap.scause = U(23)
    /\ TrapAddr(trap) = VirtioAt(48)
    /\ ~trap.panicked
    /\ pc = "guest"
    /\ blk.queue_sel # Zero32


\* C24: a 32-bit write to QueueNotify (0x50) while queue_ready = 0 changes
\* nothing: guest memory, every field of the device (irq_status included) and
\* the PLIC pending set are as before, nothing is printed, and the guest is
\* resumed past the store with the registers it trapped with.
C24_NotifyNotReadyIsSilent ==
    [][(NotifyStep /\ WidthOf(trap') = 4 /\ blk.queue_ready = Zero32) =>
          /\ ram' = ram
          /\ blk' = blk
          /\ irq_pending' = irq_pending
          /\ console' = console
          /\ trap'.log = <<>>
          /\ ~trap'.panicked
          /\ pc' = "guest"
          /\ SameGprsExcept(vcpu', trap'.x, {})
          /\ vcpu'.sepc = Add64(trap'.sepc, U(4))]_vars

\* the queue addresses are set, a request is in the avail ring, QueueReady has
\* not been written and a notify has been answered: nothing was served
C24_Witness ==
    /\ Resumed
    /\ IsNotify(trap)
    /\ blk.queue_ready = Zero32
    /\ blk.queue_avail = GuestAt(Layout.avail)
    /\ blk.queue_desc = GuestAt(Layout.desc)
    /\ blk.queue_used = GuestAt(Layout.used)
    /\ AvailIdx(ram) = 1
    /\ UsedIdx(ram) = 0
    /\ blk.irq_status = Zero32
    /\ irq_pending = {}
    /\ vcpu.sepc = Add64(trap.sepc, U(4))


\* the locations C25 lets a notify modify: the data buffers, the status byte of
\* each request, used.idx and the used ring
MayChange(off) ==
    \/ \E sl \in 0..3 : off >= DataAt(sl) /\ off < DataAt(sl) + DataLen
    \/ \E sl \in 0..3 : off = StatusAt(sl)
    \/ off >= Layout.used + 2 /\ off < Layout.used + 4 + 8 * 256

\* C25: in guest memory a notify modifies only data buffers, the single status
\* byte of each request, used-ring elements and used.idx; the bytes next to a
\* status byte are unchanged.
C25_OnlyStatusByteWritten ==
    [][NotifyStep =>
          \A off \in DOMAIN ram \cup DOMAIN ram' :
              RamByte(ram', off) # RamByte(ram, off) => MayChange(off)]_vars

\* C25 without the three bytes after each status byte
C25_FrameBesideStatusWord ==
    [][NotifyStep =>
          \A off \in DOMAIN ram \cup DOMAIN ram' :
              RamByte(ram', off) # RamByte(ram, off) =>
                  \/ MayChange(off)
                  \/ \E sl \in 0..3 : off > StatusAt(sl) /\ off < StatusAt(sl) + 4]_vars

\* a request has been served: its status byte is 0 and so are the three bytes
\* after it, which the driver had set to 0xff
C25_Clobbered ==
    /\ Resumed
    /\ IsNotify(trap)
    /\ UsedIdx(ram) = 17
    /\ RamByte(ram, StatusAt(0)) = 0
    /\ RamByte(ram, StatusAt(0) + 1) = 0
    /\ RamByte(ram, StatusAt(0) + 2) = 0
    /\ RamByte(ram, StatusAt(0) + 3) = 0


\* C26: handle_trap is entered with the stack pointer at the vCPU's host_sp,
\* the top of the 512 KiB stack VCpu::new allocated, whatever traps came
\* before; host_sp, hgatp, hstatus and sstatus of the vCPU record keep the
\* values VCpu::new gave them.
C26_HostStackReset ==
    /\ trap.taken => trap.host_sp = Add64(StackPages, U4(0, 0, 8, 0))
    /\ trap.taken => trap.host_sp = vcpu.host_sp
    /\ vcpu.host_sp = VCpu_new(GUEST_BASE_ADDR).host_sp
    /\ vcpu.hgatp = VCpu_new(GUEST_BASE_ADDR).hgatp
    /\ vcpu.hstatus = VCpu_new(GUEST_BASE_ADDR).hstatus
    /\ vcpu.sstatus = VCpu_new(GUEST_BASE_ADDR).sstatus

\* the guest has printed a character through one trap and a later trap, a
\* page fault taken with the guest's sp at 7, was entered at the stack top
C26_Witness ==
    /\ Resumed
    /\ console # <<>>
    /\ IsFault(trap)
    /\ trap.x[2] = U(7)
    /\ trap.host_sp = Add64(StackPages, U4(0, 0, 8, 0))
    /\ vcpu.sp = U(7)


(***************************************************************************)
(* The dispatcher step by step: the spin locks it takes, the iterations of *)
(* the virtqueue loop, and its end in run() or a panic                     *)
(***************************************************************************)
\* the exits of this guest: QueueNotify, InterruptACK, PLIC complete and
\* claim, putchar of 'A', an SBI call the front-end does not know, a
\* supervisor external interrupt
LiveExits ==
    {BlkStoreExit(80, U(0)), BlkStoreExit(96, U(1)),
     StoreExit(PlicAt(32, 4100), StoreInst(10, 2, FALSE)),
     LoadExit(PlicAt(32, 4100), LoadInst(5, 2, FALSE)),
     EcallExit(1, 0, U(65), U(7), GUEST_BASE_ADDR),
     EcallExit(3, 0, U(65), U(7), GUEST_BASE_ADDR),
     Exit(Interrupt(9), GUEST_BASE_ADDR, Zero64, Zero64, Zero64, <<>>)}

\* the lock the Console Putchar arm takes: `let mut buffer =
\* CONSOLE_BUFFER.lock()`, dropped at the end of the arm
SbiLocks(eid, fid) == IF eid = U(1) /\ fid = U(0) THEN {"CONSOLE_BUFFER"} ELSE {}

\* mutant of RouterLocks: the router takes the PLIC lock before it routes
RouterLocks_Always(dev) == {"PLIC"}

\* the lock the router holds while it calls the device: PLIC.lock() in the
\* PLIC arm, none in the others
RouterLocks(dev) == IF dev = "plic" THEN {"PLIC"} ELSE {}

\* the lock an iteration that serves a request takes: PLIC.lock() for
\* add_pending_irq
IterLocks == {"PLIC"}

\* the device the router picks for a fault address
LiveDev(addr) == IF InPlic(addr) THEN "plic" ELSE IF InVirtio(addr) THEN "virtio" ELSE "log"

\* the exit is a 32-bit store to QueueNotify
LiveIsNotify(t) ==
    /\ t.scause = U(23)
    /\ InVirtio(FaultAddr(t.htval, t.stval))
    /\ RegOff(Sub64(FaultAddr(t.htval, t.stval), GUEST_VIRTIO_BLK_ADDR)) = 80
    /\ AccessWidth(t.htinst) = 4

\* the machine handle_trap is entered with on exit t
LiveM(t) ==
    [vcpu |-> trap_handler(vcpu, t.x), irq_pending |-> irq_pending, blk |-> blk,
     ram |-> ram, console |-> console, panicked |-> FALSE, log |-> <<>>,
     route |-> NoRoute, checked |-> overflow_checks]

\* process_virtqueue on a ready queue whose addresses resolve: the range
\* last_used_idx..avail.idx it iterates over, and the machine after each
\* iteration (the handler runs with the guest stopped, so each iteration finds
\* the memory the one before left)
LoopPlan(m) ==
    LET a == resolve_guest_addr(m.blk.queue_avail)
        d == resolve_guest_addr(m.blk.queue_desc)
        u == resolve_guest_addr(m.blk.queue_used)
        first == Read16(m.ram, u + 2)
        end == Read16(m.ram, a + 2)
    IN  [first |-> first,
         end |-> end,
         after |-> [k \in 1..(IF first < end THEN end - first ELSE 0) |->
                       ProcessFrom(m, a, d, u, first, first + k, first)]]

\* the position of the dispatcher: the locks it holds, the loop variable i of
\* process_virtqueue and the end of its range, the number of calls of run();
\* and what it is working on: the device the router picks, whether the exit
\* enters the virtqueue loop, the machine after each iteration, the machine
\* when handle_trap reaches run()
Frame(t) ==
    LET m == LiveM(t)
        loops == /\ LiveIsNotify(t)
                 /\ blk.queue_ready # Zero32
                 /\ resolve_guest_addr(blk.queue_avail) # -1
                 /\ resolve_guest_addr(blk.queue_desc) # -1
                 /\ resolve_guest_addr(blk.queue_used) # -1
        plan == IF loops THEN LoopPlan(m) ELSE [first |-> 0, end |-> 0, after |-> <<>>]
    IN  [name |-> "handle_trap", locks |-> {}, i |-> plan.first, end |-> plan.end,
         runs |-> 0, dev |-> LiveDev(FaultAddr(t.htval, t.stval)), loops |-> loops,
         first |-> plan.first, after |-> plan.after,
         whole |-> handle_trap(m, t.scause, t.sepc, t.stval, t.htinst, t.htval)]

\* the handlers leave the machine as m1
Commit(m1) ==
    /\ vcpu' = m1.vcpu
    /\ irq_pending' = m1.irq_pending
    /\ blk' = m1.blk
    /\ ram' = m1.ram
    /\ console' = m1.console
    /\ trap' = [trap EXCEPT !.panicked = m1.panicked, !.log = m1.log, !.route = m1.route]

\* trap_handler: the registers are saved, the stack is switched and
\* handle_trap is called
LiveTake ==
    /\ pc = "guest"
    /\ hart.sscratch = VCpuPtr
    /\ \E t \in LiveExits :
          \E f \in {Frame(t)} :
              /\ IsGuestText(f.whole.console)
              /\ vcpu' = trap_handler(vcpu, t.x)
              /\ trap' = [taken |-> TRUE, scause |-> t.scause, sepc |-> t.sepc,
                          stval |-> t.stval, htinst |-> t.htinst, htval |-> t.htval,
                          x |-> t.x, panicked |-> FALSE, log |-> <<>>, route |-> NoRoute,
                          host_sp |-> EntrySp(trap_handler(vcpu, t.x))]
              /\ op' = f
    /\ hart' = [hart EXCEPT !.priv = "HS"]
    /\ pc' = "handle_trap"
    /\ UNCHANGED <<irq_pending, blk, ram, console, overflow_checks>>

\* the two matches on scause
LiveDispatch ==
    /\ pc = "handle_trap"
    /\ IF trap.scause \in {U(10), U(21), U(23)}
          /\ (trap.scause = U(10) \/ trap.htinst # Zero64)
       THEN /\ pc' = IF trap.scause = U(10) THEN "sbi" ELSE "mmio"
            /\ UNCHANGED <<vcpu, irq_pending, blk, ram, console, trap>>
       ELSE Commit(op.whole) /\ pc' = "panic"
    /\ UNCHANGED <<hart, overflow_checks, op>>

\* handle_sbi_call and the advance of sepc
LiveSbi ==
    /\ pc = "sbi"
    /\ SbiLocks(vcpu.a7, vcpu.a6) \cap op.locks = {}
    /\ Commit(op.whole)
    /\ pc' = IF op.whole.panicked THEN "panic" ELSE "run"
    /\ UNCHANGED <<hart, overflow_checks, op>>

\* handle_mmio_write / handle_mmio_read: the access is handled and sepc
\* advanced, or, for a notify of a ready queue, process_virtqueue enters its
\* loop
LiveMmio ==
    /\ pc = "mmio"
    /\ RouterLocks(op.dev) \cap op.locks = {}
    /\ IF op.loops
       THEN /\ op' = [op EXCEPT !.locks = @ \cup RouterLocks(op.dev)]
            /\ pc' = "virtqueue"
            /\ UNCHANGED <<vcpu, irq_pending, blk, ram, console, trap>>
       ELSE /\ Commit(op.whole)
            /\ pc' = IF op.whole.panicked THEN "panic" ELSE "run"
            /\ op' = op
    /\ UNCHANGED <<hart, overflow_checks>>

\* the machine after the iteration for i
LiveIterated == op.after[op.i - op.first + 1]

\* the iteration for i serves its request: it reaches PLIC.lock()
LiveServes ==
    /\ ~LiveIterated.panicked
    /\ LiveIterated.ram # ram

\* one iteration of `for i in last_used_idx..avail.idx`
LiveIter ==
    /\ pc = "virtqueue"
    /\ op.i < op.end
    /\ LiveServes => IterLocks \cap op.locks = {}
    /\ Commit(LiveIterated)
    /\ op' = [op EXCEPT !.i = @ + 1]
    /\ pc' = IF LiveIterated.panicked THEN "panic" ELSE "virtqueue"
    /\ UNCHANGED <<hart, overflow_checks>>

\* the range is exhausted: process_virtqueue and the router return, sepc is
\* advanced
LiveLoopEnd ==
    /\ pc = "virtqueue"
    /\ op.i >= op.end
    /\ Commit(op.whole)
    /\ op' = [op EXCEPT !.locks = {}]
    /\ pc' = IF op.whole.panicked THEN "panic" ELSE "run"
    /\ UNCHANGED <<hart, overflow_checks>>

\* vcpu.run() at the end of handle_trap
LiveRun ==
    /\ pc = "run"
    /\ hart' \in run(vcpu, hart)
    /\ op' = [op EXCEPT !.runs = @ + 1]
    /\ pc' = "guest"
    /\ UNCHANGED <<vcpu, irq_pending, blk, ram, console, overflow_checks, trap>>

\* the steps of the host between a trap and the sret or the panic
LiveHandler == LiveDispatch \/ LiveSbi \/ LiveMmio \/ LiveIter \/ LiveLoopEnd \/ LiveRun

\* the queue has served 16 requests when this driver starts
LiveInit == InitRing /\ AvailIdx(ram) = 16

\* the driver queues a read or a write of sector 0
LiveSubmit == RingSubmit /\ SectorOf(ram', AvailIdx(ram)) = U(0)

NextLive == MainRun \/ LiveSubmit \/ LiveTake \/ LiveHandler

\* the hart runs the handler without interruption: a handler step that can be
\* taken is taken
SpecLive == LiveInit /\ [][NextLive]_vars /\ WF_vars(LiveHandler)

\* the dispatcher is about to take a lock it holds: it would spin for ever
Relocks ==
    \/ pc = "sbi" /\ SbiLocks(vcpu.a7, vcpu.a6) \cap op.locks # {}
    \/ pc = "mmio" /\ RouterLocks(op.dev) \cap op.locks # {}
    \/ pc = "virtqueue" /\ op.i < op.end /\ LiveServes /\ IterLocks \cap op.locks # {}

\* C27: every invocation of handle_trap ends, in a panic, after which the host
\* stays in the panic handler and the guest is not entered again, or in one
\* call of run() that re-enters the guest; the virtqueue loop ends for every
\* content of guest memory, and the dispatcher never waits for a spin lock it
\* holds.
C27_EveryExitAnswered ==
    /\ [][/\ pc = "panic" => pc' = "panic"
          /\ (pc' = "guest" /\ pc \notin {"guest", "main"}) =>
                 (pc = "run" /\ op'.runs = 1 /\ op'.locks = {})
          /\ pc' = "run" => (pc # "run" /\ op'.runs = 0)
          /\ (pc = "virtqueue" /\ pc' = "virtqueue") =>
                 (op'.i = op.i + 1 /\ op'.end = op.end /\ op'.i <= op.end)]_vars
    /\ [](~Relocks)
    /\ (pc = "handle_trap") ~> (pc \in {"guest", "panic"})

\* a notify has been answered after two iterations of the loop, each of which
\* took the PLIC lock, and the guest runs again
C27_Witness ==
    /\ pc = "guest"
    /\ IsNotify(trap)
    /\ op.name = "handle_trap"
    /\ op.runs = 1
    /\ op.locks = {}
    /\ op.i = 18
    /\ op.end = 18
    /\ UsedIdx(ram) = 18
    /\ irq_pending = {1}

====
